---- MODULE Spec2Model ----
(***************************************************************************)
(* A model of Equibop's tray / window glue:                                *)
(*   - the renderer's voice-state tray icon (renderer/patches/keybinds.ts) *)
(*   - the main window's construction options, reset flow and spell-check  *)
(*     languages (main/mainWindow.ts)                                      *)
(*   - the second-instance signal (main/index.ts)                          *)
(* Each subsystem has its own specification over its own variables; the    *)
(* variables of the other subsystems stay at their initial values.         *)
(***************************************************************************)
EXTENDS Integers, Sequences, FiniteSets, TLC

VARIABLES
    \* ---- renderer: voice tray icon (keybinds.ts 73-182)
    isInCall,       \* var isInCall
    selfDeaf,       \* voiceActions.isSelfDeaf()
    selfMute,       \* voiceActions.isSelfMute()
    trayIcon,       \* argument of the last VesktopNative.tray.setIcon call
    setIconSite,    \* call site of the setIcon call made by the last handler
    lastEvent,      \* the message the last handler was run for
    \* ---- main process: environment and settings
    platform,           \* process.platform
    isDeckGameMode,     \* utils/steamOS isDeckGameMode
    Settings,           \* Settings.store
    MessageBoxChoice,   \* the enum's members Default and Cancel
    \* ---- main process: window and application lifecycle
    isQuitting,         \* let isQuitting
    mainWin,            \* the BrowserWindow: undefined, live, closing, destroyed
    win,                \* win.isVisible(), isMinimized(), isMaximized(), isFocused()
    appState,           \* starting, running, quitting (app.quit() called), quit
    relaunchQueued,     \* app.relaunch() was called
    lastClose,          \* the last "close" event of the window and its outcome
    \* ---- main process: reset flow (clearData)
    session,            \* what win.webContents.session still holds
    dataDir,            \* DATA_DIR exists
    clearDataCalls,     \* the invocations of clearData
    \* ---- main process: window geometry
    State,              \* State.store: windowBounds, displayid, maximized, minimized
    displays,           \* ids of screen.getAllDisplays()
    winOptions,         \* getWindowBoundsOptions() of the last window built
    winBounds,          \* win.getBounds()
    minimumSize,        \* win.getMinimumSize()
    \* ---- main process: spell check
    availableSpellCheckerLanguages, \* session.defaultSession's supported set
    spellCheckerLanguages,          \* what setSpellCheckerLanguages last set
    lastLanguages,      \* `languages` of the last initSpellCheckLanguages to finish
    lastApplied,        \* the list it passed to setSpellCheckerLanguages, if any
    navigatorPending,   \* invocations awaiting navigator.languages
    \* ---- second-instance signal and the renderer's keybind registry
    keybindCallbacks,   \* renderer: keybindCallbacks[id]
    lastRegistered,     \* the callback of the latest registerKeybind(id, ...) call
    lastSignal,         \* the last second-instance signal and what its handler did
    \* ---- main process: what createMainWindow builds around the window
    winId,              \* how many windows were built; mainWin is window winId
    storeListeners,     \* change listeners Settings and VencordSettings hold
    helperListeners,    \* the `listeners` maps of the two listener helpers
    lastEffect,         \* the last settings change and the windows its listeners used
    trays,              \* every Tray created: the window it serves, whether it lives
    tray,               \* let tray: index into trays of the last one created, 0 if none
    lastTrayClick,      \* the last click on a tray icon, as onTrayClick saw it
    \* ---- main process: createWindows and the page load
    startMinimized,     \* process.argv.includes("--start-minimized")
    loaded,             \* did-finish-load was emitted for the current window
    onceShow,           \* a mainWin.once("show", ...) handler is waiting
    splash,             \* the splash window: open, timer (destroy scheduled), destroyed
    url,                \* the argument of win.loadURL for the current window
    startup,            \* IS_DEV, the single-instance lock, argv, and whether init() ran
    \* ---- main process: getAccentColor
    accentCall          \* the last call of getAccentColor and its promise

voiceVars == <<isInCall, selfDeaf, selfMute, trayIcon, setIconSite, lastEvent>>
envVars == <<platform, isDeckGameMode, Settings, MessageBoxChoice>>
winVars == <<isQuitting, mainWin, win, appState, relaunchQueued, lastClose>>
resetVars == <<session, dataDir, clearDataCalls>>
boundsVars == <<State, displays, winOptions, winBounds, minimumSize>>
spellVars == <<availableSpellCheckerLanguages, spellCheckerLanguages,
               lastLanguages, lastApplied, navigatorPending>>
secondVars == <<keybindCallbacks, lastRegistered, lastSignal>>
accentVars == <<accentCall>>
loadVars == <<startMinimized, loaded, onceShow, splash, url, startup>>
buildVars ==
    <<winId, storeListeners, helperListeners, lastEffect, trays, tray, lastTrayClick>>

\* The variables the renderer's tray icon code leaves alone.
outsideVoice ==
    <<envVars, winVars, resetVars, boundsVars, spellVars, secondVars, accentVars,
      buildVars, loadVars>>

\* The variables the reset flow and the window lifecycle leave alone.
outsideReset == <<voiceVars, boundsVars, spellVars, secondVars,
                  accentVars, buildVars, loadVars>>

\* The variables the window geometry code leaves alone.
outsideBounds == <<voiceVars, resetVars, spellVars, secondVars,
                  accentVars, buildVars, loadVars>>

\* The variables the spell-check code leaves alone.
outsideSpell == <<voiceVars, envVars, winVars, resetVars, boundsVars, secondVars,
                  accentVars, buildVars, loadVars>>

\* The variables the second-instance handler and the keybind registry leave
\* alone, the window apart.
outsideSecond == <<voiceVars, envVars, resetVars, boundsVars, spellVars,
                  accentVars, buildVars, loadVars>>

vars ==
    <<voiceVars, envVars, winVars, resetVars, boundsVars, spellVars, secondVars,
      accentVars, buildVars, loadVars>>

----------------------------------------------------------------------------
(* Renderer: voice tray icon                                               *)

\* Largest speakingFlags value dispatched (0 = not speaking).
MaxSpeakingFlags == 2

\* UserStore.getCurrentUser().id
userID == "me"

UserIds == {"me", "other"}
Contexts == {"default", "stream"}
RtcStates == {"RTC_CONNECTED", "RTC_DISCONNECTED", "RTC_CONNECTING"}

Event(type, userId, context, speakingFlags, state) ==
    [type |-> type, userId |-> userId, context |-> context,
     speakingFlags |-> speakingFlags, state |-> state]

NoEvent == Event("none", "", "", 0, "")

SpeakingEvents ==
    {Event("SPEAKING", u, c, f, "") :
        u \in UserIds, c \in Contexts, f \in 0..MaxSpeakingFlags}

RtcEvents ==
    {Event("RTC_CONNECTION_STATE", "", c, 0, s) : c \in Contexts, s \in RtcStates}

\* The icon setCurrentTrayIcon passes to VesktopNative.tray.setIcon.
setCurrentTrayIcon_MuteFirst(inCall, deaf, mute) ==
    IF inCall
    THEN IF mute THEN "muted"
         ELSE IF deaf THEN "deafened"
         ELSE "idle"
    ELSE "icon"

setCurrentTrayIcon(inCall, deaf, mute) ==
    IF inCall
    THEN IF deaf THEN "deafened"
         ELSE IF mute THEN "muted"
         ELSE "idle"
    ELSE "icon"

VoiceInit ==
    /\ isInCall = FALSE
    /\ selfDeaf \in BOOLEAN
    /\ selfMute \in BOOLEAN
    /\ trayIcon = "icon"
    /\ setIconSite = "initTray"
    /\ lastEvent = NoEvent

\* The SPEAKING subscriber's filter.
SpeakingIsForMe_UserOnly(params) ==
    params.userId = userID

SpeakingIsForMe(params) ==
    params.userId = userID /\ params.context = "default"

\* FluxDispatcher.subscribe("SPEAKING", ...)
OnSPEAKING(params) ==
    /\ lastEvent' = params
    /\ IF SpeakingIsForMe(params)
       THEN IF params.speakingFlags # 0
            THEN /\ trayIcon' = "speaking"
                 /\ setIconSite' = "SPEAKING"
            ELSE /\ trayIcon' = setCurrentTrayIcon(isInCall, selfDeaf, selfMute)
                 /\ setIconSite' = "setCurrentTrayIcon"
       ELSE /\ trayIcon' = trayIcon
            /\ setIconSite' = "none"
    /\ UNCHANGED <<isInCall, selfDeaf, selfMute>>
    /\ UNCHANGED outsideVoice

\* FluxDispatcher.subscribe("AUDIO_TOGGLE_SELF_DEAF", ...): the voice store
\* has flipped the flag when the subscriber runs.
OnAUDIO_TOGGLE_SELF_DEAF ==
    /\ lastEvent' = Event("AUDIO_TOGGLE_SELF_DEAF", "", "", 0, "")
    /\ selfDeaf' = ~selfDeaf
    /\ IF isInCall
       THEN /\ trayIcon' = setCurrentTrayIcon(isInCall, selfDeaf', selfMute)
            /\ setIconSite' = "setCurrentTrayIcon"
       ELSE /\ trayIcon' = trayIcon
            /\ setIconSite' = "none"
    /\ UNCHANGED <<isInCall, selfMute>>
    /\ UNCHANGED outsideVoice

\* FluxDispatcher.subscribe("AUDIO_TOGGLE_SELF_MUTE", ...)
OnAUDIO_TOGGLE_SELF_MUTE ==
    /\ lastEvent' = Event("AUDIO_TOGGLE_SELF_MUTE", "", "", 0, "")
    /\ selfMute' = ~selfMute
    /\ IF isInCall
       THEN /\ trayIcon' = setCurrentTrayIcon(isInCall, selfDeaf, selfMute')
            /\ setIconSite' = "setCurrentTrayIcon"
       ELSE /\ trayIcon' = trayIcon
            /\ setIconSite' = "none"
    /\ UNCHANGED <<isInCall, selfDeaf>>
    /\ UNCHANGED outsideVoice

\* FluxDispatcher.subscribe("RTC_CONNECTION_STATE", ...)
OnRTC_CONNECTION_STATE(params) ==
    /\ lastEvent' = params
    /\ IF params.state = "RTC_CONNECTED" /\ params.context = "default"
       THEN /\ isInCall' = TRUE
            /\ trayIcon' = setCurrentTrayIcon(isInCall', selfDeaf, selfMute)
            /\ setIconSite' = "setCurrentTrayIcon"
       ELSE IF params.state = "RTC_DISCONNECTED" /\ params.context = "default"
       THEN /\ trayIcon' = "icon"
            /\ setIconSite' = "RTC_DISCONNECTED"
            /\ isInCall' = FALSE
       ELSE /\ UNCHANGED <<isInCall, trayIcon>>
            /\ setIconSite' = "none"
    /\ UNCHANGED <<selfDeaf, selfMute>>
    /\ UNCHANGED outsideVoice

\* VesktopNative.tray.setCurrentVoiceIcon(() => setCurrentTrayIcon())
OnSetCurrentVoiceIcon ==
    /\ lastEvent' = Event("SET_CURRENT_VOICE_ICON", "", "", 0, "")
    /\ trayIcon' = setCurrentTrayIcon(isInCall, selfDeaf, selfMute)
    /\ setIconSite' = "setCurrentTrayIcon"
    /\ UNCHANGED <<isInCall, selfDeaf, selfMute>>
    /\ UNCHANGED outsideVoice

VoiceNext ==
    \/ \E params \in SpeakingEvents : OnSPEAKING(params)
    \/ OnAUDIO_TOGGLE_SELF_DEAF
    \/ OnAUDIO_TOGGLE_SELF_MUTE
    \/ \E params \in RtcEvents : OnRTC_CONNECTION_STATE(params)
    \/ OnSetCurrentVoiceIcon

----------------------------------------------------------------------------
(* Main process: environment, window and application lifecycle             *)

\* An optional value: None is undefined, Some(v) is v.
None == <<>>
Some(v) == <<v>>

Platforms == {"linux", "darwin", "win32"}

\* A boolean setting is true, false, or absent from the store.
Tristate == {"undefined", "true", "false"}

\* Button indices of the reset dialog's buttons: ["Yes", "No"].
Buttons == <<"Yes", "No">>
ButtonIds == 0..(Len(Buttons) - 1)

\* MessageBoxChoice is declared in ./constants; mainWindow.ts uses its two
\* members Default and Cancel, which are distinct members of one enum.
MessageBoxChoices ==
    {m \in [Default : ButtonIds, Cancel : ButtonIds] : m.Default # m.Cancel}

EnvInit ==
    /\ platform \in Platforms
    /\ isDeckGameMode \in (IF platform = "linux" THEN BOOLEAN ELSE {FALSE})
    /\ Settings \in [tray : Tristate, minimizeToTray : Tristate,
                     disableMinSize : {"undefined"},
                     clickTrayToShowHide : {"undefined"},
                     discordBranch : {"undefined"}]
    /\ MessageBoxChoice \in MessageBoxChoices

\* What isVisible(), isMinimized() and isFocused() report.
NotShown ==
    [visible |-> FALSE, minimized |-> FALSE, maximized |-> FALSE, focused |-> FALSE]
Shown ==
    [visible |-> TRUE, minimized |-> FALSE, maximized |-> FALSE, focused |-> TRUE]

\* win.hide(), win.show(), win.restore(), win.focus()
hide(w) == [w EXCEPT !.visible = FALSE, !.focused = FALSE]
show(w) == [w EXCEPT !.visible = TRUE, !.focused = ~w.minimized]
restore(w) == [w EXCEPT !.minimized = FALSE]
focus(w) == [w EXCEPT !.focused = w.visible /\ ~w.minimized]
maximize(w) == [w EXCEPT !.maximized = TRUE]

\* saveState, the handler of maximize, minimize and unmaximize: the store
\* after it ran for a window reporting w.
saveState(store, w) ==
    [store EXCEPT !.maximized = Some(w.maximized), !.minimized = Some(w.minimized)]

\* The handler createWindows registers with mainWin.once("show", ...) runs
\* when a hidden window is shown, and maximizes it when the store says so.
ShowEmitted(w) == ~w.visible

OnceShowMaximizes(w) ==
    /\ onceShow /\ ShowEmitted(w)
    /\ State.maximized = Some(TRUE) /\ ~w.maximized /\ ~isDeckGameMode

\* win.show() together with the handlers of the events it emits: the window,
\* the store and the waiting once-handler afterwards.
AfterShow(w) ==
    IF OnceShowMaximizes(w)
    THEN [win |-> maximize(show(w)),
          State |-> saveState(State, maximize(show(w))),
          onceShow |-> FALSE]
    ELSE [win |-> show(w), State |-> State,
          onceShow |-> onceShow /\ ~ShowEmitted(w)]

\* What a call of win.show() from the tray or the menu leaves alone.
outsideShow ==
    <<envVars, resetVars, voiceVars, spellVars, accentVars, buildVars,
      displays, winOptions, winBounds, minimumSize, startMinimized, loaded, splash, url,
      startup>>

\* The state once createWindows has built and shown the main window.
WinInit ==
    /\ isQuitting = FALSE
    /\ mainWin = "live"
    /\ win = Shown
    /\ appState = "running"
    /\ relaunchQueued = FALSE
    /\ lastClose = None

\* win.on("close", ...): TRUE when the handler cancels the close.
useTray_IgnoreMinimizeToTray ==
    /\ ~isDeckGameMode
    /\ Settings.tray # "false"

useTray ==
    /\ ~isDeckGameMode
    /\ Settings.minimizeToTray # "false"
    /\ Settings.tray # "false"

ClosePrevented(quitting) ==
    ~(quitting \/ (platform # "darwin" /\ ~useTray))

\* The window after a close request (win.close(), the close button, or the
\* application closing its windows) made with the flag isQuitting = quitting:
\* the handler hides it (app.hide() on darwin, win.hide() elsewhere), or the
\* close goes ahead and the window is destroyed later.
\* A close event as the handler saw and left it; `even` tells consecutive
\* events apart.
CloseEvent(quitting, defaultPrevented, call) ==
    Some([isQuitting |-> quitting, defaultPrevented |-> defaultPrevented,
          call |-> call,
          even |-> IF lastClose = None THEN FALSE ELSE ~lastClose[1].even])

AfterClose(quitting) ==
    IF mainWin # "live"
    THEN [mainWin |-> mainWin, win |-> win, lastClose |-> lastClose]
    ELSE IF ClosePrevented(quitting)
    THEN [mainWin |-> "live", win |-> hide(win),
          lastClose |-> CloseEvent(quitting, TRUE,
                           IF platform = "darwin" THEN "app.hide" ELSE "win.hide")]
    ELSE [mainWin |-> "closing", win |-> win,
          lastClose |-> CloseEvent(quitting, FALSE, "none")]

\* app.quit(): before-quit sets isQuitting, then every window is asked to close.
AppQuit_NoBeforeQuit ==
    /\ isQuitting' = isQuitting
    /\ mainWin' = AfterClose(isQuitting).mainWin
    /\ win' = AfterClose(isQuitting).win
    /\ lastClose' = AfterClose(isQuitting).lastClose
    /\ appState' = IF appState = "running" THEN "quitting" ELSE appState

AppQuit ==
    /\ isQuitting' = TRUE
    /\ mainWin' = AfterClose(TRUE).mainWin
    /\ win' = AfterClose(TRUE).win
    /\ lastClose' = AfterClose(TRUE).lastClose
    /\ appState' = IF appState = "running" THEN "quitting" ELSE appState

\* The user presses the window's close button.
WinCloseButton ==
    /\ appState # "quit"
    /\ mainWin = "live" /\ win.visible
    /\ mainWin' = AfterClose(isQuitting).mainWin
    /\ win' = AfterClose(isQuitting).win
    /\ lastClose' = AfterClose(isQuitting).lastClose
    /\ UNCHANGED <<isQuitting, appState, relaunchQueued>>
    /\ UNCHANGED <<envVars, resetVars, outsideReset>>

\* The live trays whose menu and click handler act on the current window.
TraysOfWindow == {t \in 1..Len(trays) : trays[t].live /\ trays[t].win = winId}

\* Tray menu "Open": win.show()
TrayOpen ==
    /\ appState # "quit"
    /\ TraysOfWindow # {}
    /\ mainWin = "live" /\ ~win.visible
    /\ win' = AfterShow(win).win
    /\ State' = AfterShow(win).State
    /\ onceShow' = AfterShow(win).onceShow
    /\ UNCHANGED <<isQuitting, mainWin, appState, relaunchQueued, lastClose>>
    /\ UNCHANGED <<outsideShow, secondVars>>

\* onTrayClick: TRUE when the click hides the window, FALSE when it shows it.
trayClickHides_Visible(setting, w) ==
    w.visible

trayClickHides(setting, w) ==
    setting = "true" /\ w.visible

TrayClickSeen(setting, w) ==
    Some([clickTrayToShowHide |-> setting, visible |-> w.visible,
          even |-> IF lastTrayClick = None THEN FALSE ELSE ~lastTrayClick[1].even])

\* tray.on("click", onTrayClick)
TrayClick ==
    /\ appState # "quit"
    /\ TraysOfWindow # {}
    /\ mainWin = "live"
    /\ lastTrayClick' = TrayClickSeen(Settings.clickTrayToShowHide, win)
    /\ IF trayClickHides(Settings.clickTrayToShowHide, win)
       THEN /\ win' = hide(win)
            /\ UNCHANGED <<State, onceShow>>
       ELSE /\ win' = AfterShow(win).win
            /\ State' = AfterShow(win).State
            /\ onceShow' = AfterShow(win).onceShow
    /\ UNCHANGED <<isQuitting, mainWin, appState, relaunchQueued, lastClose>>
    /\ UNCHANGED <<winId, storeListeners, helperListeners, lastEffect, trays, tray>>
    /\ UNCHANGED <<envVars, resetVars, voiceVars, spellVars, accentVars, secondVars,
                   displays, winOptions, winBounds, minimumSize,
                   startMinimized, loaded, splash, url, startup>>

\* Tray menu "Quit": isQuitting = true; app.quit()
TrayQuit ==
    /\ appState = "running"
    /\ \E t \in 1..Len(trays) : trays[t].live
    /\ AppQuit
    /\ UNCHANGED relaunchQueued
    /\ UNCHANGED <<envVars, resetVars, outsideReset>>

\* Menu "Quit" (role quit, its accelerator) or a quit asked by the system:
\* app.quit()
MenuQuit ==
    /\ appState = "running"
    /\ AppQuit
    /\ UNCHANGED relaunchQueued
    /\ UNCHANGED <<envVars, resetVars, outsideReset>>

\* Tray menu "Restart", menu "Relaunch": app.relaunch(); app.quit()
Restart ==
    /\ appState = "running"
    /\ relaunchQueued' = TRUE
    /\ AppQuit
    /\ UNCHANGED <<envVars, resetVars, outsideReset>>

\* The page's beforeunload handler cancels a close the close handler let
\* through; a quit under way is called off, the flag stays as it is.
BeforeUnloadCancelsClose ==
    /\ appState # "quit"
    /\ mainWin = "closing"
    /\ mainWin' = "live"
    /\ appState' = "running"
    /\ UNCHANGED <<isQuitting, win, relaunchQueued, lastClose>>
    /\ UNCHANGED <<envVars, resetVars, outsideReset>>

\* A closing window is destroyed; index.ts's window-all-closed handler then
\* calls app.quit() unless the platform is darwin.
WindowClosed ==
    /\ appState # "quit"
    /\ mainWin = "closing"
    /\ mainWin' = "destroyed"
    /\ win' = NotShown
    /\ IF platform # "darwin"
       THEN /\ isQuitting' = TRUE
            /\ appState' = IF appState = "running" THEN "quitting" ELSE appState
       ELSE UNCHANGED <<isQuitting, appState>>
    /\ UNCHANGED <<relaunchQueued, lastClose>>
    /\ UNCHANGED <<envVars, resetVars, outsideReset>>

\* The process ends once app.quit() has closed every window.
ProcessExit ==
    /\ appState = "quitting"
    /\ mainWin \in {"undefined", "destroyed"}
    /\ appState' = "quit"
    /\ UNCHANGED <<isQuitting, mainWin, win, relaunchQueued, lastClose>>
    /\ UNCHANGED <<envVars, resetVars, outsideReset>>

----------------------------------------------------------------------------
(* Main process: the reset flow, clearData                                 *)

\* Number of clearData invocations that may be in progress together.
MaxClearData == 2

ClearDataIds == 1..MaxClearData

NoResponse == -1

ResetInit ==
    /\ session = [storageData |-> TRUE, cache |-> TRUE, codeCaches |-> TRUE]
    /\ dataDir = TRUE
    /\ clearDataCalls =
         [i \in ClearDataIds |-> [pc |-> "idle", response |-> NoResponse, steps |-> <<>>]]

Call(i) == clearDataCalls[i]

SetCall(i, pc, response, steps) ==
    clearDataCalls' =
        [clearDataCalls EXCEPT ![i] = [pc |-> pc, response |-> response, steps |-> steps]]

\* Reading win.webContents of a destroyed window throws.
WebContentsThrows == mainWin \in {"undefined", "destroyed"}

\* Menu "Reset Equibop": clearData(win) runs up to the await of the dialog.
ClearData(i) ==
    /\ appState # "quit"
    /\ mainWin = "live"
    /\ Call(i).pc = "idle"
    /\ SetCall(i, "dialog", NoResponse, <<>>)
    /\ UNCHANGED <<session, dataDir>>
    /\ UNCHANGED <<envVars, winVars, outsideReset>>

\* The dialog resolves with the index of the chosen button; a dismissed dialog
\* resolves with cancelId.  On any response but Cancel: win.close(), then the
\* call of clearStorageData.
ClearData_DialogResponse_CancelIsDefault(i, response) ==
    /\ appState # "quit"
    /\ Call(i).pc = "dialog"
    /\ IF response = MessageBoxChoice.Default
       THEN /\ SetCall(i, "returned", response, <<>>)
            /\ UNCHANGED <<mainWin, win, lastClose>>
       ELSE IF WebContentsThrows
       THEN /\ SetCall(i, "threw", response, <<>>)
            /\ UNCHANGED <<mainWin, win, lastClose>>
       ELSE /\ mainWin' = AfterClose(isQuitting).mainWin
            /\ win' = AfterClose(isQuitting).win
            /\ lastClose' = AfterClose(isQuitting).lastClose
            /\ SetCall(i, "clearStorageData", response, <<"close">>)
    /\ UNCHANGED <<isQuitting, appState, relaunchQueued, session, dataDir>>
    /\ UNCHANGED <<envVars, outsideReset>>

ClearData_DialogResponse(i, response) ==
    /\ appState # "quit"
    /\ Call(i).pc = "dialog"
    /\ IF response = MessageBoxChoice.Cancel
       THEN /\ SetCall(i, "returned", response, <<>>)
            /\ UNCHANGED <<mainWin, win, lastClose>>
       ELSE IF WebContentsThrows
       THEN /\ SetCall(i, "threw", response, <<>>)
            /\ UNCHANGED <<mainWin, win, lastClose>>
       ELSE /\ mainWin' = AfterClose(isQuitting).mainWin
            /\ win' = AfterClose(isQuitting).win
            /\ lastClose' = AfterClose(isQuitting).lastClose
            /\ SetCall(i, "clearStorageData", response, <<"close">>)
    /\ UNCHANGED <<isQuitting, appState, relaunchQueued, session, dataDir>>
    /\ UNCHANGED <<envVars, outsideReset>>

\* clearStorageData() resolves; the call of clearCache.
ClearData_StorageDataCleared(i) ==
    /\ appState # "quit"
    /\ Call(i).pc = "clearStorageData"
    /\ session' = [session EXCEPT !.storageData = FALSE]
    /\ SetCall(i, IF WebContentsThrows THEN "threw" ELSE "clearCache",
               Call(i).response, Append(Call(i).steps, "clearStorageData"))
    /\ UNCHANGED dataDir
    /\ UNCHANGED <<envVars, winVars, outsideReset>>

\* clearCache() resolves; the call of clearCodeCaches.
ClearData_CacheCleared(i) ==
    /\ appState # "quit"
    /\ Call(i).pc = "clearCache"
    /\ session' = [session EXCEPT !.cache = FALSE]
    /\ SetCall(i, IF WebContentsThrows THEN "threw" ELSE "clearCodeCaches",
               Call(i).response, Append(Call(i).steps, "clearCache"))
    /\ UNCHANGED dataDir
    /\ UNCHANGED <<envVars, winVars, outsideReset>>

\* clearCodeCaches() resolves; the call of rm(DATA_DIR).
ClearData_CodeCachesCleared_NoAwaitRm(i) ==
    /\ appState # "quit"
    /\ Call(i).pc = "clearCodeCaches"
    /\ session' = [session EXCEPT !.codeCaches = FALSE]
    /\ SetCall(i, "rm", Call(i).response,
               Call(i).steps \o <<"clearCodeCaches", "relaunch", "quit">>)
    /\ relaunchQueued' = TRUE
    /\ AppQuit
    /\ UNCHANGED dataDir
    /\ UNCHANGED <<envVars, outsideReset>>

ClearData_CodeCachesCleared(i) ==
    /\ appState # "quit"
    /\ Call(i).pc = "clearCodeCaches"
    /\ session' = [session EXCEPT !.codeCaches = FALSE]
    /\ SetCall(i, "rm", Call(i).response, Append(Call(i).steps, "clearCodeCaches"))
    /\ UNCHANGED dataDir
    /\ UNCHANGED <<envVars, winVars, outsideReset>>

\* rm(DATA_DIR) resolves; app.relaunch(); app.quit().
ClearData_RmDone(i) ==
    /\ appState # "quit"
    /\ Call(i).pc = "rm"
    /\ dataDir' = FALSE
    /\ SetCall(i, "done", Call(i).response,
               Call(i).steps \o <<"rm", "relaunch", "quit">>)
    /\ relaunchQueued' = TRUE
    /\ AppQuit
    /\ UNCHANGED session
    /\ UNCHANGED <<envVars, outsideReset>>

ResetNext ==
    \/ \E i \in ClearDataIds : ClearData(i)
    \/ \E i \in ClearDataIds, response \in ButtonIds : ClearData_DialogResponse(i, response)
    \/ \E i \in ClearDataIds : ClearData_StorageDataCleared(i)
    \/ \E i \in ClearDataIds : ClearData_CacheCleared(i)
    \/ \E i \in ClearDataIds : ClearData_CodeCachesCleared(i)
    \/ \E i \in ClearDataIds : ClearData_RmDone(i)
    \/ WinCloseButton
    \/ TrayOpen
    \/ TrayQuit
    \/ WindowClosed
    \/ ProcessExit

----------------------------------------------------------------------------
(* Main process: window bounds                                             *)

Max(a, b) == IF a >= b THEN a ELSE b
Min(a, b) == IF a <= b THEN a ELSE b

\* Number of displays that can be attached.
MaxDisplays == 2

\* The window sizes mainWindow.ts imports from ./constants.
DEFAULT_WIDTH == 1280
DEFAULT_HEIGHT == 720
MIN_WIDTH == 940
MIN_HEIGHT == 500

\* The size Electron gives a window built without width and height.
ElectronSize == [width |-> 800, height |-> 600]

\* Displays lie side by side, display d from x = (d - 1) * DisplayWidth.
DisplayWidth == 1920
DisplayIds == 1..MaxDisplays
DisplayLeft(d) == (d - 1) * DisplayWidth

\* The rectangles a window is moved and resized to.
Rectangles ==
    [x : {DisplayLeft(d) + 100 : d \in DisplayIds}, y : {50},
     width : {ElectronSize.width, DEFAULT_WIDTH}, height : {400, DEFAULT_HEIGHT}]

\* screen.getDisplayMatching(rect).id: the attached display the rectangle
\* overlaps most, the nearest one when it overlaps none.
Overlap(rect, d) ==
    Max(0, Min(rect.x + rect.width, DisplayLeft(d) + DisplayWidth)
             - Max(rect.x, DisplayLeft(d)))

Distance(rect, d) ==
    IF rect.x >= DisplayLeft(d) THEN rect.x - DisplayLeft(d)
    ELSE DisplayLeft(d) - rect.x

getDisplayMatching(rect, attached) ==
    CHOOSE d \in attached :
        \A e \in attached :
            \/ Overlap(rect, d) > Overlap(rect, e)
            \/ /\ Overlap(rect, d) = Overlap(rect, e)
               /\ \/ Distance(rect, d) < Distance(rect, e)
                  \/ Distance(rect, d) = Distance(rect, e) /\ d <= e

NoOptions ==
    [width |-> None, height |-> None, x |-> None, y |-> None,
     minWidth |-> None, minHeight |-> None]

\* getWindowBoundsOptions()
getWindowBoundsOptions_TrustPosition(deck, store, attached, settings) ==
    IF deck THEN NoOptions
    ELSE LET wb == store.windowBounds
             positioned == wb # None
             sized == settings.disableMinSize # "true"
         IN [width |-> IF wb # None THEN Some(wb[1].width) ELSE Some(DEFAULT_WIDTH),
             height |-> IF wb # None THEN Some(wb[1].height) ELSE Some(DEFAULT_HEIGHT),
             x |-> IF positioned THEN Some(wb[1].x) ELSE None,
             y |-> IF positioned THEN Some(wb[1].y) ELSE None,
             minWidth |-> IF sized THEN Some(MIN_WIDTH) ELSE None,
             minHeight |-> IF sized THEN Some(MIN_HEIGHT) ELSE None]

getWindowBoundsOptions(deck, store, attached, settings) ==
    IF deck THEN NoOptions
    ELSE LET wb == store.windowBounds
             storedDisplay == {d \in attached : store.displayid = Some(d)}
             positioned == wb # None /\ storedDisplay # {}
             sized == settings.disableMinSize # "true"
         IN [width |-> IF wb # None THEN Some(wb[1].width) ELSE Some(DEFAULT_WIDTH),
             height |-> IF wb # None THEN Some(wb[1].height) ELSE Some(DEFAULT_HEIGHT),
             x |-> IF positioned THEN Some(wb[1].x) ELSE None,
             y |-> IF positioned THEN Some(wb[1].y) ELSE None,
             minWidth |-> IF sized THEN Some(MIN_WIDTH) ELSE None,
             minHeight |-> IF sized THEN Some(MIN_HEIGHT) ELSE None]

\* The bounds of a window built with these options: Electron's size when none
\* is given, no smaller than the minimum size, centred on the primary display
\* when no position is given.
PrimaryDisplay(attached) == CHOOSE d \in attached : \A e \in attached : d <= e

ConstructedBounds(options, attached) ==
    LET w0 == IF options.width = None THEN ElectronSize.width ELSE options.width[1]
        h0 == IF options.height = None THEN ElectronSize.height ELSE options.height[1]
        w == IF options.minWidth = None THEN w0 ELSE Max(w0, options.minWidth[1])
        h == IF options.minHeight = None THEN h0 ELSE Max(h0, options.minHeight[1])
    IN [x |-> IF options.x = None
              THEN DisplayLeft(PrimaryDisplay(attached)) + (DisplayWidth - w) \div 2
              ELSE options.x[1],
        y |-> IF options.y = None THEN 100 ELSE options.y[1],
        width |-> w, height |-> h]

\* The minimum size of a window built with these options; Electron's is 0 x 0.
NoMinimumSize == [width |-> 0, height |-> 0]

ConstructedMinimumSize(options) ==
    [width |-> IF options.minWidth = None THEN 0 ELSE options.minWidth[1],
     height |-> IF options.minHeight = None THEN 0 ELSE options.minHeight[1]]

\* The store as the previous run left it, the displays now attached, and no
\* window yet.
BoundsInit ==
    /\ \/ State = [windowBounds |-> None, displayid |-> None,
                   maximized |-> None, minimized |-> None]
       \/ \E rect \in Rectangles, d \in DisplayIds, maximized \in BOOLEAN :
            State = [windowBounds |-> Some(rect), displayid |-> Some(d),
                     maximized |-> Some(maximized), minimized |-> Some(FALSE)]
    /\ displays \in (SUBSET DisplayIds) \ {{}}
    /\ winOptions = NoOptions
    /\ winBounds = None
    /\ minimumSize = NoMinimumSize

BoundsRest ==
    /\ State = [windowBounds |-> None, displayid |-> None,
                maximized |-> None, minimized |-> None]
    /\ displays = {1}
    /\ winOptions = NoOptions
    /\ winBounds = None
    /\ minimumSize = NoMinimumSize

\* Most windows built in one run of the process.
MaxWindows == 2

\* The change listeners initSettingsListeners registers for window w.
SettingsPaths == {"tray", "disableMinSize", "enableMenu", "spellCheckLanguages"}
VencordSettingsPaths == {"macosTranslucency"}

Listener(store, path, w) == [store |-> store, path |-> path, win |-> w]

initSettingsListeners(w) ==
    {Listener("Settings", path, w) : path \in SettingsPaths}
        \cup {Listener("VencordSettings", path, w) : path \in VencordSettingsPaths}

\* removeSettingsListeners(); removeVencordSettingsListeners(): what the
\* stores still hold once every listener of the helpers' maps is removed.
removeAllListeners_KeepRegistered(registered, helper) ==
    registered

removeAllListeners(registered, helper) ==
    registered \ helper

\* Most Tray objects created in one run of the process.
MaxTrays == 3

\* initTray(win): tray = new Tray(ICON_PATH), serving window w.
initTray(w) == Append(trays, [win |-> w, live |-> TRUE])

\* tray?.destroy()
destroyTray ==
    IF tray = 0 THEN trays ELSE [trays EXCEPT ![tray].live = FALSE]

\* createMainWindow's own call of initTray.
TrayAtStartup ==
    /\ ~isDeckGameMode
    /\ Settings.tray # "false"
    /\ platform # "darwin"

\* Settings.store.discordBranch: unset, or one of the branches the settings
\* page offers.
DiscordBranches == {"undefined", "stable", "canary", "ptb"}

\* const subdomain = branch === "canary" || branch === "ptb" ? `${branch}.` : ""
subdomain_CanaryOnly(discordBranch) ==
    IF discordBranch = "canary" THEN discordBranch \o "." ELSE ""

subdomain(discordBranch) ==
    IF discordBranch = "canary" \/ discordBranch = "ptb"
    THEN discordBranch \o "."
    ELSE ""

\* `https://${subdomain}discord.com/app`
loadedURL(discordBranch) == "https://" \o subdomain(discordBranch) \o "discord.com/app"

\* No window built yet: no listener registered, no tray.
BuildRest ==
    /\ winId = 0
    /\ storeListeners = {}
    /\ helperListeners = {}
    /\ lastEffect = None
    /\ trays = <<>>
    /\ tray = 0
    /\ lastTrayClick = None

\* createMainWindow has run once.
BuiltOnce ==
    /\ winId = 1
    /\ storeListeners = initSettingsListeners(1)
    /\ helperListeners = initSettingsListeners(1)
    /\ lastEffect = None
    /\ trays = IF TrayAtStartup THEN <<[win |-> 1, live |-> TRUE]>> ELSE <<>>
    /\ tray = Len(trays)
    /\ lastTrayClick = None

\* createWindows -> createMainWindow, from bootstrap and, on darwin, from the
\* activate handler when no window is left, the splash window included:
\* splash = getSplash(); remove...Listeners();
\* new BrowserWindow({..., ...getWindowBoundsOptions()});
\* initSettingsListeners(win)
CreateMainWindow ==
    /\ appState = "running"
    /\ \/ mainWin = "undefined"
       \/ mainWin = "destroyed" /\ platform = "darwin" /\ splash = "destroyed"
    /\ winId < MaxWindows
    /\ winId' = winId + 1
    /\ storeListeners' =
         removeAllListeners(storeListeners, helperListeners)
            \cup initSettingsListeners(winId')
    /\ helperListeners' = initSettingsListeners(winId')
    /\ UNCHANGED <<lastEffect, lastTrayClick>>
    /\ TrayAtStartup => Len(trays) < MaxTrays
    /\ trays' = IF TrayAtStartup THEN initTray(winId') ELSE trays
    /\ tray' = IF TrayAtStartup THEN Len(trays') ELSE tray
    /\ mainWin' = "live"
    /\ win' = NotShown
    /\ winOptions' = getWindowBoundsOptions(isDeckGameMode, State, displays, Settings)
    /\ winBounds' = Some(ConstructedBounds(winOptions', displays))
    /\ minimumSize' = ConstructedMinimumSize(winOptions')
    /\ UNCHANGED <<State, displays>>
    /\ loaded' = FALSE
    /\ onceShow' = FALSE
    /\ splash' = "open"
    /\ url' = Some(loadedURL(Settings.discordBranch))
    /\ UNCHANGED <<startMinimized, startup>>
    /\ UNCHANGED <<isQuitting, appState, relaunchQueued, lastClose>>
    /\ UNCHANGED <<envVars, voiceVars, resetVars, spellVars, secondVars, accentVars>>

\* How the process started: IS_DEV, the result of
\* app.requestSingleInstanceLock, process.argv.includes("--keybind"), and
\* whether init() has run.
Startup(IS_DEV, lock, keybind, init) ==
    [IS_DEV |-> IS_DEV, lock |-> lock, keybind |-> keybind, init |-> init]

\* A release build that got the lock, started without --keybind, ran init().
Started == Startup(FALSE, TRUE, FALSE, TRUE)

\* createWindows has not run: the splash window is open.
LoadRest ==
    /\ startMinimized = FALSE
    /\ loaded = FALSE
    /\ onceShow = FALSE
    /\ splash = "open"
    /\ url = None
    /\ startup = Started

\* The same, with or without --start-minimized.
LoadInit ==
    /\ startMinimized \in BOOLEAN
    /\ loaded = FALSE
    /\ onceShow = FALSE
    /\ splash = "open"
    /\ url = None
    /\ startup = Started

\* The page has loaded once and the splash window is gone.
LoadedOnce ==
    /\ startMinimized = FALSE
    /\ loaded = TRUE
    /\ onceShow = TRUE
    /\ splash = "destroyed"
    /\ url = Some(loadedURL(Settings.discordBranch))
    /\ startup = Started

\* mainWin.webContents.on("did-finish-load", ...) of createWindows.  The
\* full-screen calls of Deck game mode act on nothing modelled here.
DidFinishLoad ==
    /\ appState # "quit"
    /\ mainWin = "live"
    /\ LET shown == IF ~startMinimized THEN AfterShow(win)
                    ELSE [win |-> win, State |-> State, onceShow |-> onceShow]
           maximizes == /\ ~startMinimized
                        /\ shown.State.maximized = Some(TRUE)
                        /\ ~isDeckGameMode
       IN /\ win' = IF maximizes THEN maximize(shown.win) ELSE shown.win
          /\ State' = IF maximizes /\ ~shown.win.maximized
                      THEN saveState(shown.State, win')
                      ELSE shown.State
    /\ onceShow' = TRUE
    /\ loaded' = TRUE
    /\ splash' = IF splash = "open" THEN "timer" ELSE splash
    /\ UNCHANGED <<startMinimized, url, startup>>
    /\ UNCHANGED <<isQuitting, mainWin, appState, relaunchQueued, lastClose>>
    /\ UNCHANGED <<envVars, resetVars, voiceVars, spellVars, accentVars, buildVars,
                   secondVars, displays, winOptions, winBounds, minimumSize>>

\* The top level of index.ts:
\* if (!app.requestSingleInstanceLock({ IS_DEV })) { if (IS_DEV) init(); else app.quit(); }
\* else { if (process.argv.includes("--keybind")) app.quit(); else init(); }
runsInit(s) == IF ~s.lock THEN s.IS_DEV ELSE ~s.keybind

StartupGate ==
    /\ appState = "starting"
    /\ startup' = [startup EXCEPT !.init = runsInit(startup)]
    /\ IF runsInit(startup)
       THEN /\ appState' = "running"
            /\ UNCHANGED isQuitting
       ELSE /\ appState' = "quitting"
            /\ isQuitting' = TRUE
    /\ UNCHANGED <<mainWin, win, relaunchQueued, lastClose>>
    /\ UNCHANGED <<startMinimized, loaded, onceShow, splash, url>>
    /\ UNCHANGED <<envVars, resetVars, voiceVars, boundsVars, spellVars, accentVars,
                   buildVars, secondVars>>

\* setTimeout(() => splash.destroy(), 1000)
SplashTimer ==
    /\ appState # "quit"
    /\ splash = "timer"
    /\ splash' = "destroyed"
    /\ UNCHANGED <<startMinimized, loaded, onceShow, url, startup>>
    /\ UNCHANGED <<envVars, winVars, resetVars, voiceVars, boundsVars, spellVars,
                   accentVars, buildVars, secondVars>>

\* The user maximizes the window: win.on("maximize", saveState)
WinMaximize ==
    /\ appState # "quit"
    /\ mainWin = "live" /\ win.visible /\ ~win.minimized /\ ~win.maximized
    /\ win' = maximize(win)
    /\ State' = saveState(State, win')
    /\ UNCHANGED <<isQuitting, mainWin, appState, relaunchQueued, lastClose>>
    /\ UNCHANGED <<outsideShow, secondVars, onceShow>>

\* The user unmaximizes the window: win.on("unmaximize", saveState)
WinUnmaximize ==
    /\ appState # "quit"
    /\ mainWin = "live" /\ win.visible /\ ~win.minimized /\ win.maximized
    /\ win' = [win EXCEPT !.maximized = FALSE]
    /\ State' = saveState(State, win')
    /\ UNCHANGED <<isQuitting, mainWin, appState, relaunchQueued, lastClose>>
    /\ UNCHANGED <<outsideShow, secondVars, onceShow>>

\* The user minimizes the window: win.on("minimize", saveState)
WinMinimize ==
    /\ appState # "quit"
    /\ mainWin = "live" /\ win.visible /\ ~win.minimized
    /\ win' = [win EXCEPT !.minimized = TRUE, !.focused = FALSE]
    /\ State' = saveState(State, win')
    /\ UNCHANGED <<isQuitting, mainWin, appState, relaunchQueued, lastClose>>
    /\ UNCHANGED <<outsideShow, secondVars, onceShow>>

\* saveBounds, the handler of resize and move: the store after it ran for a
\* window whose getBounds() is rect.
boundsSaved_KeepDisplay(store, rect, attached) ==
    [store EXCEPT !.windowBounds = Some(rect)]

boundsSaved(store, rect, attached) ==
    [store EXCEPT !.windowBounds = Some(rect),
                  !.displayid = Some(getDisplayMatching(rect, attached))]

\* A settings change as its listeners see it: the windows they act on.
Effect(store, path, value) ==
    Some([store |-> store, path |-> path, value |-> value,
          wins |-> {l.win : l \in {m \in storeListeners :
                                      m.store = store /\ m.path = path}}])

\* Settings.store.tray = value; the listener of initSettingsListeners:
\* if (enable) initTray(win); else tray?.destroy()
SettingChanged_tray(value) ==
    /\ appState = "running"
    /\ Settings.tray # value
    /\ Settings' = [Settings EXCEPT !.tray = value]
    /\ lastEffect' = Effect("Settings", "tray", value)
    /\ IF lastEffect'[1].wins = {}
       THEN UNCHANGED <<trays, tray>>
       ELSE IF value = "true"
       THEN /\ Len(trays) < MaxTrays
            /\ trays' = initTray(CHOOSE w \in lastEffect'[1].wins :
                                    \A v \in lastEffect'[1].wins : v <= w)
            /\ tray' = Len(trays')
       ELSE /\ trays' = destroyTray
            /\ UNCHANGED tray
    /\ UNCHANGED <<winId, storeListeners, helperListeners, lastTrayClick>>
    /\ UNCHANGED <<platform, isDeckGameMode, MessageBoxChoice>>
    /\ UNCHANGED <<voiceVars, winVars, resetVars, boundsVars, spellVars, secondVars,
                   accentVars, loadVars>>

\* win.setBounds({width: Math.max(width, MIN_WIDTH),
\*                height: Math.max(height, MIN_HEIGHT)})
grownBounds_Unchanged(rect) ==
    rect

grownBounds(rect) ==
    [rect EXCEPT !.width = Max(rect.width, MIN_WIDTH),
                 !.height = Max(rect.height, MIN_HEIGHT)]

\* Settings.store.disableMinSize = value; the listener of
\* initSettingsListeners, and the resize handler when the bounds change.
SettingChanged_disableMinSize(value) ==
    /\ appState = "running"
    /\ mainWin \in {"undefined", "live"}
    /\ Settings.disableMinSize # value
    /\ Settings' = [Settings EXCEPT !.disableMinSize = value]
    /\ lastEffect' = Effect("Settings", "disableMinSize", value)
    /\ IF lastEffect'[1].wins = {}
       THEN UNCHANGED <<minimumSize, winBounds, State>>
       ELSE IF value = "true"
       THEN /\ minimumSize' = [width |-> 1, height |-> 1]
            /\ UNCHANGED <<winBounds, State>>
       ELSE /\ minimumSize' = [width |-> MIN_WIDTH, height |-> MIN_HEIGHT]
            /\ winBounds' = Some(grownBounds(winBounds[1]))
            /\ State' = IF winBounds' # winBounds
                        THEN boundsSaved(State, winBounds'[1], displays)
                        ELSE State
    /\ UNCHANGED <<displays, winOptions>>
    /\ UNCHANGED <<winId, storeListeners, helperListeners, trays, tray, lastTrayClick>>
    /\ UNCHANGED <<platform, isDeckGameMode, MessageBoxChoice>>
    /\ UNCHANGED <<voiceVars, winVars, resetVars, spellVars, secondVars, accentVars,
                   loadVars>>

\* A change of a setting whose listener acts on nothing modelled here:
\* enableMenu (setAutoHideMenuBar), macosTranslucency (setVibrancy).
SettingChanged_other(store, path, value) ==
    /\ appState = "running"
    /\ lastEffect # Effect(store, path, value)
    /\ lastEffect' = Effect(store, path, value)
    /\ UNCHANGED <<winId, storeListeners, helperListeners, trays, tray, lastTrayClick>>
    /\ UNCHANGED <<voiceVars, envVars, winVars, resetVars, boundsVars, spellVars,
                   secondVars, accentVars, loadVars>>

\* Settings.store.discordBranch = value.  No listener is registered for this
\* path: the value is read when the next window is built.
SettingChanged_discordBranch(value) ==
    /\ appState = "running"
    /\ Settings.discordBranch # value
    /\ Settings' = [Settings EXCEPT !.discordBranch = value]
    /\ UNCHANGED <<platform, isDeckGameMode, MessageBoxChoice>>
    /\ UNCHANGED <<voiceVars, winVars, resetVars, boundsVars, spellVars, secondVars,
                   accentVars, buildVars, loadVars>>

\* win.on("resize", saveBounds), win.on("move", saveBounds): the user moves
\* or resizes the window to rect.
saveBounds(rect) ==
    /\ appState = "running"
    /\ mainWin = "live"
    /\ winBounds # Some(rect)
    /\ rect.width >= minimumSize.width /\ rect.height >= minimumSize.height
    /\ winBounds' = Some(rect)
    /\ State' = boundsSaved(State, rect, displays)
    /\ UNCHANGED <<displays, winOptions, minimumSize>>
    /\ UNCHANGED <<envVars, winVars, outsideBounds>>

\* A display is attached or detached.
DisplaysChanged(attached) ==
    /\ appState = "running"
    /\ attached # {} /\ attached # displays
    /\ displays' = attached
    /\ UNCHANGED <<State, winOptions, winBounds, minimumSize>>
    /\ UNCHANGED <<envVars, winVars, outsideBounds>>

BoundsNext ==
    \/ CreateMainWindow
    \/ \E value \in Tristate : SettingChanged_disableMinSize(value)
    \/ DidFinishLoad
    \/ WinMaximize
    \/ WinUnmaximize
    \/ WinMinimize
    \/ \E rect \in Rectangles : saveBounds(rect)
    \/ \E attached \in SUBSET DisplayIds : DisplaysChanged(attached)

----------------------------------------------------------------------------
(* Main process: spell-check languages                                     *)

\* Longest list over Languages that is requested.
MaxLanguages == 3

\* Most invocations awaiting navigator.languages at once.
MaxNavigatorPending == 1

Languages == {"xx-XX", "en-US", "fr-FR"}
EngineLanguages == {"en-US", "fr-FR", "de-DE"}

SeqsUpTo(S, n) == UNION {[1..k -> S] : k \in 0..n}

\* Lists long enough to pass the cap of slice(0, 5).
LongList(first, n) ==
    [i \in 1..n |-> IF i = 1 THEN first
                    ELSE IF i % 2 = 0 THEN "fr-FR" ELSE "en-US"]

LanguageLists ==
    SeqsUpTo(Languages, MaxLanguages)
        \cup {LongList(first, n) : first \in {"xx-XX", "en-US"}, n \in 5..7}

\* [...new Set(navigator.languages)]: a list without repetition.
NavigatorLists ==
    {l \in SeqsUpTo(Languages, MaxLanguages) :
        \A i, j \in 1..Len(l) : l[i] = l[j] => i = j}

\* languages.filter(l => available.includes(l))
filter(languages, available) ==
    LET includes(l) == l \in available
    IN SelectSeq(languages, includes)

\* Array.prototype.slice(start, end) for 0 <= start <= end
slice(array, start, end) == SubSeq(array, start + 1, Min(end, Len(array)))

\* const applicable = languages.filter(...).slice(0, 5)
applicable_NoSlice(languages, available) ==
    filter(languages, available)

applicable(languages, available) ==
    slice(filter(languages, available), 0, 5)

SpellInit ==
    /\ availableSpellCheckerLanguages \in SUBSET EngineLanguages
    /\ spellCheckerLanguages \in
         {<<>>} \cup {<<l>> : l \in availableSpellCheckerLanguages}
    /\ lastLanguages = None
    /\ lastApplied = None
    /\ navigatorPending = 0

SpellRest ==
    /\ availableSpellCheckerLanguages = EngineLanguages
    /\ spellCheckerLanguages = <<>>
    /\ lastLanguages = None
    /\ lastApplied = None
    /\ navigatorPending = 0

\* The part of initSpellCheckLanguages after `languages` is known:
\* if (applicable.length) ses.setSpellCheckerLanguages(applicable)
ApplyLanguages_Always(languages) ==
    /\ lastLanguages' = Some(languages)
    /\ spellCheckerLanguages' = applicable(languages, availableSpellCheckerLanguages)
    /\ lastApplied' = Some(spellCheckerLanguages')

ApplyLanguages(languages) ==
    /\ lastLanguages' = Some(languages)
    /\ IF Len(applicable(languages, availableSpellCheckerLanguages)) # 0
       THEN /\ spellCheckerLanguages' =
                 applicable(languages, availableSpellCheckerLanguages)
            /\ lastApplied' = Some(spellCheckerLanguages')
       ELSE /\ spellCheckerLanguages' = spellCheckerLanguages
            /\ lastApplied' = None

\* initSpellCheckLanguages(win, languages) with a list: from initSpellCheck or
\* from the spellCheckLanguages settings listener.
initSpellCheckLanguages(languages) ==
    /\ appState = "running"
    /\ mainWin = "live"
    /\ ApplyLanguages(languages)
    /\ UNCHANGED <<availableSpellCheckerLanguages, navigatorPending>>
    /\ UNCHANGED outsideSpell

\* initSpellCheckLanguages(win, undefined) up to the await of executeJavaScript.
initSpellCheckLanguages_Undefined ==
    /\ appState = "running"
    /\ mainWin = "live"
    /\ navigatorPending < MaxNavigatorPending
    /\ navigatorPending' = navigatorPending + 1
    /\ UNCHANGED <<availableSpellCheckerLanguages, spellCheckerLanguages,
                   lastLanguages, lastApplied>>
    /\ UNCHANGED outsideSpell

\* executeJavaScript resolves with the page's languages.
NavigatorLanguagesResolved(languages) ==
    /\ appState = "running"
    /\ navigatorPending > 0
    /\ navigatorPending' = navigatorPending - 1
    /\ ApplyLanguages(languages)
    /\ UNCHANGED availableSpellCheckerLanguages
    /\ UNCHANGED outsideSpell

\* executeJavaScript rejects: .catch(() => [])
NavigatorLanguagesRejected ==
    /\ appState = "running"
    /\ navigatorPending > 0
    /\ navigatorPending' = navigatorPending - 1
    /\ ApplyLanguages(<<>>)
    /\ UNCHANGED availableSpellCheckerLanguages
    /\ UNCHANGED outsideSpell

SpellNext ==
    \/ \E languages \in LanguageLists : initSpellCheckLanguages(languages)
    \/ initSpellCheckLanguages_Undefined
    \/ \E languages \in NavigatorLists : NavigatorLanguagesResolved(languages)
    \/ NavigatorLanguagesRejected

----------------------------------------------------------------------------
(* Second-instance signal (index.ts) and keybind registry (keybinds.ts)    *)

\* Most arguments that precede the signal's own in argv.
MaxLeadingArgs == 1

KeybindIds == {"3", "4"}
Callbacks == {"callbackA", "callbackB"}

LeadingArgs(n) == [i \in 1..n |-> "equibop"]

SignalArgs ==
    {<<>>, <<"--keybind">>}
        \cup {<<"--keybind", id>> : id \in KeybindIds}
        \cup {<<"--keybind", id, key>> :
                id \in KeybindIds, key \in {"keydown", "keyup", "--other"}}

CmdLines == {LeadingArgs(n) \o args : n \in 0..MaxLeadingArgs, args \in SignalArgs}

\* Array.prototype.indexOf, and array[i] (None where it is undefined).
indexOf(array, value) ==
    IF \E i \in 1..Len(array) : array[i] = value
    THEN (CHOOSE i \in 1..Len(array) :
            array[i] = value /\ \A j \in 1..(i - 1) : array[j] # value) - 1
    ELSE -1

At(array, index) ==
    IF index + 1 \in 1..Len(array) THEN Some(array[index + 1]) ELSE None

\* The script the handler passes to executeJavaScript:
\* Vesktop.keybindCallbacks[<id>](<pressed>)
KeybindScript_Inverted(cmdLine, keybindIndex) ==
    [id |-> At(cmdLine, keybindIndex + 1),
     pressed |-> At(cmdLine, keybindIndex + 2) = Some("keyup")]

KeybindScript(cmdLine, keybindIndex) ==
    IF At(cmdLine, keybindIndex + 2) = Some("keyup")
         \/ At(cmdLine, keybindIndex + 2) = Some("keydown")
    THEN [id |-> At(cmdLine, keybindIndex + 1),
          pressed |-> At(cmdLine, keybindIndex + 2) = Some("keydown")]
    ELSE [id |-> At(cmdLine, keybindIndex + 1), pressed |-> FALSE]

\* The callback invocations the script makes in the renderer: one when the
\* registry has an entry for the id, none (the script throws) otherwise.
RunScript(script) ==
    IF script.id # None /\ script.id[1] \in KeybindIds
         /\ keybindCallbacks[script.id[1]] # None
    THEN <<[callback |-> keybindCallbacks[script.id[1]][1], pressed |-> script.pressed]>>
    ELSE <<>>

\* A signal and what the handler did for it; `even` tells consecutive signals
\* apart.
Signal(cmdLine, data, window, scripts, invoked, windowCalls, threw) ==
    [cmdLine |-> Some(cmdLine), IS_DEV |-> data, window |-> window,
     scripts |-> scripts, invoked |-> invoked, windowCalls |-> windowCalls,
     threw |-> threw, even |-> ~lastSignal.even]

NoSignal ==
    [cmdLine |-> None, IS_DEV |-> FALSE, window |-> "undefined",
     scripts |-> <<>>, invoked |-> <<>>, windowCalls |-> <<>>, threw |-> FALSE,
     even |-> FALSE]

SecondInit ==
    /\ keybindCallbacks = [id \in KeybindIds |-> None]
    /\ lastRegistered = [id \in KeybindIds |-> None]
    /\ lastSignal = NoSignal

\* The BrowserWindow calls of the handler's last branch.
FocusCalls(w) ==
    (IF w.minimized THEN <<"restore">> ELSE <<>>)
        \o (IF ~(IF w.minimized THEN restore(w) ELSE w).visible THEN <<"show">> ELSE <<>>)
        \o <<"focus">>

\* The window, the store and the waiting once-handler after those calls.
AfterFocusCalls_NoRestore(w) ==
    LET shown == IF ~w.visible THEN AfterShow(w)
                 ELSE [win |-> w, State |-> State, onceShow |-> onceShow]
    IN [shown EXCEPT !.win = focus(shown.win)]

AfterFocusCalls(w) ==
    LET w1 == IF w.minimized THEN restore(w) ELSE w
        shown == IF ~w1.visible THEN AfterShow(w1)
                 ELSE [win |-> w1, State |-> State, onceShow |-> onceShow]
    IN [shown EXCEPT !.win = focus(shown.win)]

\* app.on("second-instance", (_event, cmdLine, _cwd, data) => ...)
SecondInstance(cmdLine, data) ==
    /\ appState # "quit"
    /\ LET keybindIndex == indexOf(cmdLine, "--keybind")
           destroyed == mainWin = "destroyed"
       IN IF keybindIndex # -1
          THEN IF WebContentsThrows
               THEN /\ lastSignal' = Signal(cmdLine, data, mainWin, <<>>, <<>>, <<>>, TRUE)
                    /\ UNCHANGED <<winVars, State, onceShow>>
               ELSE /\ lastSignal' =
                         Signal(cmdLine, data, mainWin,
                                <<KeybindScript(cmdLine, keybindIndex)>>,
                                RunScript(KeybindScript(cmdLine, keybindIndex)),
                                <<>>, FALSE)
                    /\ UNCHANGED <<winVars, State, onceShow>>
          ELSE IF data
          THEN /\ lastSignal' = Signal(cmdLine, data, mainWin, <<>>, <<>>, <<>>, FALSE)
               /\ AppQuit
               /\ UNCHANGED <<relaunchQueued, State, onceShow>>
          ELSE IF mainWin = "undefined"
          THEN /\ lastSignal' = Signal(cmdLine, data, mainWin, <<>>, <<>>, <<>>, FALSE)
               /\ UNCHANGED <<winVars, State, onceShow>>
          ELSE IF destroyed
          THEN /\ lastSignal' = Signal(cmdLine, data, mainWin, <<>>, <<>>, <<>>, TRUE)
               /\ UNCHANGED <<winVars, State, onceShow>>
          ELSE /\ lastSignal' =
                    Signal(cmdLine, data, mainWin, <<>>, <<>>, FocusCalls(win), FALSE)
               /\ win' = AfterFocusCalls(win).win
               /\ State' = AfterFocusCalls(win).State
               /\ onceShow' = AfterFocusCalls(win).onceShow
               /\ UNCHANGED <<isQuitting, mainWin, appState, relaunchQueued, lastClose>>
    /\ UNCHANGED <<keybindCallbacks, lastRegistered>>
    /\ UNCHANGED outsideShow

\* registerKeybind(id, shortcut, callback, options), in the renderer:
\* keybindCallbacks[id] = callback
registerKeybind_KeepFirst(id, callback) ==
    /\ appState # "quit"
    /\ mainWin \in {"live", "closing"}
    /\ lastRegistered[id] # Some(callback)
    /\ keybindCallbacks' =
         IF keybindCallbacks[id] = None
         THEN [keybindCallbacks EXCEPT ![id] = Some(callback)]
         ELSE keybindCallbacks
    /\ lastRegistered' = [lastRegistered EXCEPT ![id] = Some(callback)]
    /\ UNCHANGED <<lastSignal, winVars, outsideSecond>>

registerKeybind(id, callback) ==
    /\ appState # "quit"
    /\ mainWin \in {"live", "closing"}
    /\ keybindCallbacks[id] # Some(callback)
    /\ keybindCallbacks' = [keybindCallbacks EXCEPT ![id] = Some(callback)]
    /\ lastRegistered' = [lastRegistered EXCEPT ![id] = Some(callback)]
    /\ UNCHANGED <<lastSignal, winVars, outsideSecond>>

\* unregisterKeybind(id), in the renderer
unregisterKeybind(id) ==
    /\ appState # "quit"
    /\ mainWin \in {"live", "closing"}
    /\ keybindCallbacks[id] # None
    /\ keybindCallbacks' = [keybindCallbacks EXCEPT ![id] = None]
    /\ UNCHANGED <<lastRegistered, lastSignal, winVars, outsideSecond>>

\* The signal and the keybind registry, from init() to the end of the process.
SecondNext ==
    \/ \E cmdLine \in CmdLines, data \in BOOLEAN : SecondInstance(cmdLine, data)
    \/ \E id \in KeybindIds, callback \in Callbacks : registerKeybind(id, callback)
    \/ \E id \in KeybindIds : unregisterKeybind(id)
    \/ CreateMainWindow
    \/ WindowClosed
    \/ ProcessExit

\* The signal and what the user does to the window between two signals.
FocusNext ==
    \/ \E cmdLine \in CmdLines, data \in BOOLEAN : SecondInstance(cmdLine, data)
    \/ CreateMainWindow
    \/ TrayOpen
    \/ WinCloseButton
    \/ WinMinimize
    \/ WindowClosed
    \/ ProcessExit

----------------------------------------------------------------------------
(* Main process: getAccentColor                                            *)

\* The colour components the portal reports are the multiples of
\* 1 / MaxColorStep, held in thousandths (0.25 is 250).
MaxColorStep == 4

ColorParts == {(1000 * i) \div MaxColorStep : i \in 0..MaxColorStep}
PortalColors == {<<r, g, b>> : r \in ColorParts, g \in ColorParts, b \in ColorParts}

\* What systemPreferences.getAccentColor?.() evaluates to: undefined when the
\* method is absent, else the string it returns.
NativeColors == {None, Some(""), Some("0078d4ff"), Some("aabbccdd")}

\* Math.round(part * 255) for a part given in thousandths.
Round255(part) == (part * 255 + 500) \div 1000

\* value.toString(16).padStart(2, "0") for 0 <= value <= 255
HexDigits == <<"0", "1", "2", "3", "4", "5", "6", "7",
               "8", "9", "a", "b", "c", "d", "e", "f">>
toHex(value) == HexDigits[(value \div 16) + 1] \o HexDigits[(value % 16) + 1]

hexColor(rgb) ==
    "#" \o toHex(Round255(rgb[1])) \o toHex(Round255(rgb[2]))
        \o toHex(Round255(rgb[3]))

\* The non-linux path: `#${systemPreferences.getAccentColor?.() || ""}`
nativeColor(native) ==
    "#" \o (IF native = None \/ native = Some("") THEN "" ELSE native[1])

AccentCall(pc, failure, settled, value) ==
    [pc |-> pc, failure |-> failure, settled |-> settled, value |-> value]

AccentInit ==
    accentCall = AccentCall("idle", "none", "pending", "")

\* getAccentColor() on linux: the promise is created and getInterface called.
GetAccentColor_Linux ==
    /\ platform = "linux"
    /\ accentCall.pc \in {"idle", "settled"}
    /\ accentCall' = AccentCall("getInterface", "none", "pending", "")
    /\ UNCHANGED <<voiceVars, envVars, winVars, resetVars, boundsVars, spellVars,
                   secondVars, buildVars, loadVars>>

\* The getInterface callback: resolve("") on err, else settings.Read(...).
GetInterfaceDone(err) ==
    /\ accentCall.pc = "getInterface"
    /\ accentCall' = IF err THEN AccentCall("settled", "interface", "resolved", "")
                     ELSE AccentCall("Read", "none", "pending", "")
    /\ UNCHANGED <<voiceVars, envVars, winVars, resetVars, boundsVars, spellVars,
                   secondVars, buildVars, loadVars>>

\* The Read callback: resolve("") on err, else resolve(hexColor).
ReadDone(err, rgb) ==
    /\ accentCall.pc = "Read"
    /\ accentCall' = IF err THEN AccentCall("settled", "read", "resolved", "")
                     ELSE AccentCall("settled", "none", "resolved", hexColor(rgb))
    /\ UNCHANGED <<voiceVars, envVars, winVars, resetVars, boundsVars, spellVars,
                   secondVars, buildVars, loadVars>>

\* getAccentColor() elsewhere: Promise.resolve(...)
GetAccentColor_Native(native) ==
    /\ platform # "linux"
    /\ accentCall.pc \in {"idle", "settled"}
    /\ accentCall' =
         AccentCall("settled",
                    IF native = None THEN "absent"
                    ELSE IF native = Some("") THEN "nothing" ELSE "none",
                    "resolved", nativeColor(native))
    /\ UNCHANGED <<voiceVars, envVars, winVars, resetVars, boundsVars, spellVars,
                   secondVars, buildVars, loadVars>>

AccentNext ==
    \/ GetAccentColor_Linux
    \/ \E err \in BOOLEAN : GetInterfaceDone(err)
    \/ \E err \in BOOLEAN, rgb \in PortalColors : ReadDone(err, rgb)
    \/ \E native \in NativeColors : GetAccentColor_Native(native)

----------------------------------------------------------------------------
(* Specifications                                                          *)

\* The values the variables of a subsystem keep while another one runs.
VoiceRest ==
    /\ isInCall = FALSE /\ selfDeaf = FALSE /\ selfMute = FALSE
    /\ trayIcon = "icon" /\ setIconSite = "initTray" /\ lastEvent = NoEvent

EnvRest ==
    /\ platform = "linux" /\ isDeckGameMode = FALSE
    /\ Settings = [tray |-> "undefined", minimizeToTray |-> "undefined",
                   disableMinSize |-> "undefined",
                   clickTrayToShowHide |-> "undefined",
                   discordBranch |-> "undefined"]
    /\ MessageBoxChoice = [Default |-> 0, Cancel |-> 1]

InitVoice ==
    /\ VoiceInit /\ EnvRest /\ WinInit /\ ResetInit /\ BoundsRest /\ SpellRest
    /\ SecondInit /\ AccentInit /\ BuiltOnce /\ LoadedOnce

SpecVoice == InitVoice /\ [][VoiceNext]_vars

InitReset ==
    /\ VoiceRest /\ EnvInit /\ WinInit /\ ResetInit /\ BoundsRest /\ SpellRest
    /\ SecondInit /\ AccentInit /\ BuiltOnce /\ LoadedOnce

SpecReset == InitReset /\ [][ResetNext]_vars

\* The same, where every call clearData awaits completes, a window that
\* closes gets destroyed, and a process that was told to quit exits.
ResetFairness ==
    /\ \A i \in ClearDataIds :
         /\ WF_vars(ClearData_StorageDataCleared(i))
         /\ WF_vars(ClearData_CacheCleared(i))
         /\ WF_vars(ClearData_CodeCachesCleared(i))
         /\ WF_vars(ClearData_RmDone(i))
    /\ WF_vars(WindowClosed)
    /\ WF_vars(ProcessExit)

SpecResetFair == InitReset /\ [][ResetNext]_vars /\ ResetFairness

\* Window construction and geometry, from the start of createWindows.
InitBounds ==
    /\ VoiceRest /\ ResetInit /\ BoundsInit /\ SpellRest /\ SecondInit
    /\ AccentInit /\ BuildRest /\ LoadRest
    /\ platform = "linux"
    /\ isDeckGameMode \in BOOLEAN
    /\ Settings \in [tray : {"undefined"}, minimizeToTray : {"undefined"},
                     disableMinSize : Tristate,
                     clickTrayToShowHide : {"undefined"},
                     discordBranch : {"undefined"}]
    /\ MessageBoxChoice = [Default |-> 0, Cancel |-> 1]
    /\ isQuitting = FALSE
    /\ mainWin = "undefined"
    /\ win = NotShown
    /\ appState = "running"
    /\ relaunchQueued = FALSE
    /\ lastClose = None

SpecBounds == InitBounds /\ [][BoundsNext]_vars

InitSpell ==
    /\ VoiceRest /\ EnvRest /\ WinInit /\ ResetInit /\ BoundsRest /\ SpellInit
    /\ SecondInit /\ AccentInit /\ BuiltOnce /\ LoadedOnce

SpecSpell == InitSpell /\ [][SpellNext]_vars

\* The running instance from init(), before createWindows has built a window.
InitSecond ==
    /\ VoiceRest /\ EnvRest /\ ResetInit /\ BoundsRest /\ SpellRest /\ SecondInit
    /\ AccentInit /\ BuildRest /\ LoadRest
    /\ isQuitting = FALSE
    /\ mainWin = "undefined"
    /\ win = NotShown
    /\ appState = "running"
    /\ relaunchQueued = FALSE
    /\ lastClose = None

SpecSecond == InitSecond /\ [][SecondNext]_vars

InitFocus ==
    /\ VoiceRest /\ EnvRest /\ ResetInit /\ BoundsRest /\ SpellRest /\ SecondInit
    /\ AccentInit /\ BuildRest /\ LoadRest
    /\ isQuitting = FALSE
    /\ mainWin = "undefined"
    /\ win = NotShown
    /\ appState = "running"
    /\ relaunchQueued = FALSE
    /\ lastClose = None

SpecFocus == InitFocus /\ [][FocusNext]_vars

\* The window and the application from init() to the end of the process, on
\* every platform and for every value of the tray settings.
InitWindow ==
    /\ VoiceRest /\ EnvInit /\ ResetInit /\ SpellRest /\ SecondInit
    /\ \E maximized \in {None, Some(TRUE)} :
         State = [windowBounds |-> None, displayid |-> None,
                  maximized |-> maximized, minimized |-> None]
    /\ displays = {1}
    /\ winOptions = NoOptions
    /\ winBounds = None
    /\ minimumSize = NoMinimumSize
    /\ AccentInit /\ BuildRest /\ LoadInit
    /\ isQuitting = FALSE
    /\ mainWin = "undefined"
    /\ win = NotShown
    /\ appState = "running"
    /\ relaunchQueued = FALSE
    /\ lastClose = None

WindowNext ==
    \/ CreateMainWindow
    \/ DidFinishLoad
    \/ SplashTimer
    \/ WinCloseButton
    \/ WinMinimize
    \/ TrayOpen
    \/ TrayQuit
    \/ MenuQuit
    \/ Restart
    \/ BeforeUnloadCancelsClose
    \/ WindowClosed
    \/ ProcessExit

SpecWindow == InitWindow /\ [][WindowNext]_vars

\* The settings listeners and the tray, on a platform that creates the tray
\* with the window (linux) and on the one that rebuilds its window (darwin).
InitSettings ==
    /\ platform \in {"linux", "darwin"}
    /\ isDeckGameMode = FALSE
    /\ Settings \in [tray : Tristate, minimizeToTray : {"undefined"},
                     disableMinSize : {"undefined"},
                     clickTrayToShowHide : Tristate,
                     discordBranch : {"undefined"}]
    /\ MessageBoxChoice = [Default |-> 0, Cancel |-> 1]
    /\ VoiceRest /\ ResetInit /\ BoundsRest /\ SpellRest /\ SecondInit
    /\ AccentInit /\ BuildRest /\ LoadRest
    /\ isQuitting = FALSE
    /\ mainWin = "undefined"
    /\ win = NotShown
    /\ appState = "running"
    /\ relaunchQueued = FALSE
    /\ lastClose = None

SettingsNext ==
    \/ CreateMainWindow
    \/ DidFinishLoad
    \/ SplashTimer
    \/ \E value \in Tristate : SettingChanged_tray(value)
    \/ \E value \in BOOLEAN :
         \/ SettingChanged_other("Settings", "enableMenu", value)
         \/ SettingChanged_other("VencordSettings", "macosTranslucency", value)
    \/ WinCloseButton
    \/ TrayOpen
    \/ TrayClick
    \/ MenuQuit
    \/ BeforeUnloadCancelsClose
    \/ WindowClosed

SpecSettings == InitSettings /\ [][SettingsNext]_vars

\* The page the window loads, for every value of the discordBranch setting,
\* on linux and on the platform that rebuilds its window (darwin).
InitLoad ==
    /\ platform \in {"linux", "darwin"}
    /\ isDeckGameMode = FALSE
    /\ Settings \in [tray : {"undefined"}, minimizeToTray : {"undefined"},
                     disableMinSize : {"undefined"},
                     clickTrayToShowHide : {"undefined"},
                     discordBranch : DiscordBranches]
    /\ MessageBoxChoice = [Default |-> 0, Cancel |-> 1]
    /\ VoiceRest /\ ResetInit /\ BoundsRest /\ SpellRest /\ SecondInit
    /\ AccentInit /\ BuildRest /\ LoadRest
    /\ isQuitting = FALSE
    /\ mainWin = "undefined"
    /\ win = NotShown
    /\ appState = "running"
    /\ relaunchQueued = FALSE
    /\ lastClose = None

LoadNext ==
    \/ CreateMainWindow
    \/ DidFinishLoad
    \/ SplashTimer
    \/ \E value \in DiscordBranches : SettingChanged_discordBranch(value)
    \/ WinCloseButton
    \/ MenuQuit
    \/ BeforeUnloadCancelsClose
    \/ WindowClosed

SpecLoad == InitLoad /\ [][LoadNext]_vars

\* A process from its first statement: a dev or a release build, with or
\* without the single-instance lock, with or without --keybind in its argv.
InitStart ==
    /\ VoiceRest /\ EnvRest /\ ResetInit /\ BoundsRest /\ SpellRest /\ SecondInit
    /\ AccentInit /\ BuildRest
    /\ startMinimized \in BOOLEAN
    /\ loaded = FALSE
    /\ onceShow = FALSE
    /\ splash = "open"
    /\ url = None
    /\ startup \in {Startup(IS_DEV, lock, keybind, FALSE) :
                      IS_DEV \in BOOLEAN, lock \in BOOLEAN, keybind \in BOOLEAN}
    /\ isQuitting = FALSE
    /\ mainWin = "undefined"
    /\ win = NotShown
    /\ appState = "starting"
    /\ relaunchQueued = FALSE
    /\ lastClose = None

StartNext ==
    \/ StartupGate
    \/ CreateMainWindow
    \/ DidFinishLoad
    \/ SplashTimer
    \/ WinCloseButton
    \/ WinMinimize
    \/ TrayOpen
    \/ TrayQuit
    \/ WindowClosed
    \/ ProcessExit

SpecStart == InitStart /\ [][StartNext]_vars

\* getAccentColor, called over IPC at any time, on every platform.
InitAccent ==
    /\ platform \in Platforms
    /\ isDeckGameMode = FALSE
    /\ Settings = [tray |-> "undefined", minimizeToTray |-> "undefined",
                   disableMinSize |-> "undefined",
                   clickTrayToShowHide |-> "undefined",
                   discordBranch |-> "undefined"]
    /\ MessageBoxChoice = [Default |-> 0, Cancel |-> 1]
    /\ VoiceRest /\ WinInit /\ ResetInit /\ BoundsRest /\ SpellRest /\ SecondInit
    /\ AccentInit /\ BuiltOnce /\ LoadedOnce

SpecAccent == InitAccent /\ [][AccentNext]_vars

----------------------------------------------------------------------------
(* Properties of the voice tray icon                                       *)

\* C1: whenever setCurrentTrayIcon recomputes the icon while in a call with
\* self-mute and self-deaf both set, the icon it sets is "deafened".
C1_DeafenedBeatsMuted ==
    (setIconSite = "setCurrentTrayIcon" /\ isInCall /\ selfDeaf /\ selfMute)
        => trayIcon = "deafened"

C1_Witness ==
    /\ setIconSite = "setCurrentTrayIcon"
    /\ lastEvent.type = "AUDIO_TOGGLE_SELF_MUTE"
    /\ isInCall /\ selfDeaf /\ selfMute
    /\ trayIcon = "deafened"

\* C2: whenever the user is not in a call, the icon last set is "icon".
C2_NotInCallShowsIcon ==
    ~isInCall => trayIcon = "icon"

\* C3: deafened and muted take precedence over speaking: after a
\* speaking-started event for the current user in the default context the
\* icon is "deafened" when in a call and deafened, "muted" when in a call and
\* muted but not deafened, and in a call it is "speaking" only when neither
\* deafened nor muted.
C3_SpeakingLosesToDeafMute ==
    /\ (lastEvent.type = "SPEAKING" /\ lastEvent.userId = userID
          /\ lastEvent.context = "default" /\ lastEvent.speakingFlags # 0
          /\ isInCall)
         => /\ selfDeaf => trayIcon = "deafened"
            /\ (selfMute /\ ~selfDeaf) => trayIcon = "muted"
    /\ (isInCall /\ trayIcon = "speaking") => (~selfDeaf /\ ~selfMute)

\* C4: a SPEAKING event for another user, or in a context other than
\* "default", changes neither the tray icon nor the in-call flag.
C4_ForeignSpeakingIgnored ==
    [][(lastEvent'.type = "SPEAKING"
          /\ (lastEvent'.userId # userID \/ lastEvent'.context # "default"))
        => UNCHANGED <<trayIcon, isInCall>>]_vars

C4_Witness ==
    /\ lastEvent.type = "SPEAKING"
    /\ lastEvent.userId = userID
    /\ lastEvent.context # "default"
    /\ lastEvent.speakingFlags # 0
    /\ isInCall
    /\ trayIcon = "muted"

----------------------------------------------------------------------------
(* Properties of the reset flow                                            *)

\* The steps of a confirmed reset, in the order clearData performs them.
ResetOrder ==
    <<"close", "clearStorageData", "clearCache", "clearCodeCaches", "rm",
      "relaunch", "quit">>

IsPrefix(s, t) == Len(s) <= Len(t) /\ s = SubSeq(t, 1, Len(s))

\* C6: an invocation of clearData whose dialog resolved with the cancel choice
\* closes nothing, clears nothing, deletes nothing and neither relaunches nor
\* quits; while no invocation got another answer, the session data and the
\* data directory are intact and no relaunch is queued.
C6_CancelDoesNothing ==
    /\ \A i \in ClearDataIds :
         Call(i).response = MessageBoxChoice.Cancel
            => Call(i).pc = "returned" /\ Call(i).steps = <<>>
    /\ (\A i \in ClearDataIds :
           Call(i).response \in {NoResponse, MessageBoxChoice.Cancel})
         => /\ session.storageData /\ session.cache /\ session.codeCaches
            /\ dataDir
            /\ ~relaunchQueued

C6_Witness ==
    \E i \in ClearDataIds :
        /\ Call(i).response = MessageBoxChoice.Cancel
        /\ Call(i).pc = "returned"
        /\ mainWin = "live" /\ win.visible
        /\ dataDir /\ session.storageData
        /\ appState = "running"

\* C7: the reset dialog is default-denied: an invocation whose dialog resolved
\* with the default button (defaultId) does not start the destructive reset.
C7_DefaultDenied ==
    \A i \in ClearDataIds :
        Call(i).response = MessageBoxChoice.Default
            => Call(i).pc = "returned" /\ Call(i).steps = <<>>

\* C8: the steps of a confirmed reset happen in the order of ResetOrder, each
\* started only when the previous one has completed, and a relaunch is queued
\* only once the data directory has been deleted.
C8_ResetStepsInOrder ==
    /\ \A i \in ClearDataIds :
         /\ IsPrefix(Call(i).steps, ResetOrder)
         /\ Call(i).pc \in {"clearStorageData", "clearCache", "clearCodeCaches", "rm"}
              => ResetOrder[Len(Call(i).steps) + 1] = Call(i).pc
         /\ Call(i).pc = "done" => Call(i).steps = ResetOrder
    /\ relaunchQueued => ~dataDir

C8_Witness ==
    \E i \in ClearDataIds :
        /\ Call(i).pc = "done"
        /\ Call(i).steps = ResetOrder
        /\ relaunchQueued /\ ~dataDir
        /\ ~session.storageData /\ ~session.cache /\ ~session.codeCaches

----------------------------------------------------------------------------
(* Properties of the window bounds options                                 *)

\* A step that builds the main window.
WindowBuilt == mainWin = "undefined" /\ mainWin' = "live"

\* The stored record names a display that is not attached.
StoredDisplayMissing ==
    State.displayid # None /\ State.displayid[1] \notin displays

\* C5 as stated: when the stored bounds record names a display that is not
\* attached, getWindowBoundsOptions returns the default width and height and
\* no position.
C5_DefaultsWhenDisplayMissing ==
    [][(WindowBuilt /\ StoredDisplayMissing)
        => /\ winOptions'.width = Some(DEFAULT_WIDTH)
           /\ winOptions'.height = Some(DEFAULT_HEIGHT)
           /\ winOptions'.x = None /\ winOptions'.y = None]_vars

\* C5 amended: when the stored bounds record names a display that is not
\* attached, getWindowBoundsOptions returns no position; outside Deck game
\* mode it returns the stored width and height (the defaults when none are
\* stored), in Deck game mode no size either.
C5_NoPositionWhenDisplayMissing ==
    [][(WindowBuilt /\ StoredDisplayMissing)
        => /\ winOptions'.x = None /\ winOptions'.y = None
           /\ isDeckGameMode
                => winOptions'.width = None /\ winOptions'.height = None
           /\ (~isDeckGameMode /\ State.windowBounds # None)
                => /\ winOptions'.width = Some(State.windowBounds[1].width)
                   /\ winOptions'.height = Some(State.windowBounds[1].height)
           /\ (~isDeckGameMode /\ State.windowBounds = None)
                => /\ winOptions'.width = Some(DEFAULT_WIDTH)
                   /\ winOptions'.height = Some(DEFAULT_HEIGHT)]_vars

\* A window just built from a record whose display is gone: no position, the
\* stored size.
C5_Witness ==
    /\ mainWin = "live"
    /\ ~isDeckGameMode
    /\ StoredDisplayMissing
    /\ State.windowBounds # None
    /\ State.windowBounds[1].width # DEFAULT_WIDTH
    /\ winOptions.x = None /\ winOptions.y = None
    /\ winOptions.width = Some(State.windowBounds[1].width)
    /\ winBounds = Some(ConstructedBounds(winOptions, displays))

----------------------------------------------------------------------------
(* Properties of the spell-check languages                                 *)

\* The positions of a requested list that hold a supported language.
SupportedPositions(requested) ==
    {i \in 1..Len(requested) : requested[i] \in availableSpellCheckerLanguages}

\* The k-th supported position.
SupportedPosition(requested, k) ==
    CHOOSE i \in SupportedPositions(requested) :
        Cardinality({j \in SupportedPositions(requested) : j < i}) = k - 1

\* The requested languages that are supported, in the requested order, cut to
\* the first five.
SupportedFirstFive(requested) ==
    [k \in 1..Min(5, Cardinality(SupportedPositions(requested)))
        |-> requested[SupportedPosition(requested, k)]]

\* C9: for every requested list and supported set, the languages
\* initSpellCheckLanguages applies are the requested languages that are
\* supported, in the requested order, cut to the first five: it passes exactly
\* that list to setSpellCheckerLanguages when the list has an entry, and
\* applies nothing when it has none.
C9_AppliedIsIntersection ==
    lastLanguages # None
        => IF SupportedPositions(lastLanguages[1]) # {}
           THEN /\ lastApplied = Some(SupportedFirstFive(lastLanguages[1]))
                /\ spellCheckerLanguages = SupportedFirstFive(lastLanguages[1])
           ELSE lastApplied = None

C9_Witness ==
    /\ availableSpellCheckerLanguages = {"en-US", "fr-FR", "de-DE"}
    /\ lastLanguages = Some(<<"xx-XX", "en-US", "fr-FR">>)
    /\ lastApplied = Some(<<"en-US", "fr-FR">>)
    /\ spellCheckerLanguages = <<"en-US", "fr-FR">>

\* A request with more than five supported languages is cut to its first five.
C9_CapReached ==
    /\ lastLanguages = Some(LongList("xx-XX", 7))
    /\ spellCheckerLanguages = <<"fr-FR", "en-US", "fr-FR", "en-US", "fr-FR">>

----------------------------------------------------------------------------
(* Properties of the second-instance signal                                *)

\* The last signal's argv has `--keybind <id> <key>` at its first --keybind.
KeybindSignal(id, key) ==
    /\ lastSignal.cmdLine # None
    /\ LET cmdLine == lastSignal.cmdLine[1]
           keybindIndex == indexOf(cmdLine, "--keybind")
       IN /\ keybindIndex # -1
          /\ At(cmdLine, keybindIndex + 1) = Some(id)
          /\ At(cmdLine, keybindIndex + 2) = Some(key)

\* What the handler did for the signal is one script invoking registry entry
\* id with `pressed`, no callback invoked with anything else, and no call of
\* restore, show or focus.
ForwardedOnce(id, pressed) ==
    /\ lastSignal.scripts = <<[id |-> Some(id), pressed |-> pressed]>>
    /\ Len(lastSignal.invoked) <= 1
    /\ \A i \in 1..Len(lastSignal.invoked) : lastSignal.invoked[i].pressed = pressed
    /\ lastSignal.windowCalls = <<>>

----------------------------------------------------------------------------
(* Properties of the close-button policy and of quitting                   *)

\* A step in which the window's close handler ran.
CloseEventDelivered == lastClose' # lastClose

\* C11: on a platform other than darwin, a close event delivered while the
\* really-quitting flag is not set, outside Deck game mode and with neither
\* the tray nor the minimize-to-tray setting disabled, is cancelled and the
\* window is hidden and stays alive; a close event delivered while the tray
\* or the minimize-to-tray setting is disabled is not cancelled and the
\* window goes on to be destroyed.
C11_ClosePolicy ==
    [][(CloseEventDelivered /\ platform # "darwin")
        => /\ (~isDeckGameMode /\ ~lastClose'[1].isQuitting
                  /\ Settings.tray # "false" /\ Settings.minimizeToTray # "false")
                => /\ lastClose'[1].defaultPrevented
                   /\ lastClose'[1].call = "win.hide"
                   /\ mainWin' = "live" /\ ~win'.visible
           /\ (Settings.tray = "false" \/ Settings.minimizeToTray = "false")
                => /\ ~lastClose'[1].defaultPrevented
                   /\ lastClose'[1].call = "none"
                   /\ mainWin' = "closing"]_vars

\* The close button hid the window of a running application.
C11_Witness ==
    /\ platform = "win32"
    /\ Settings.tray = "true" /\ Settings.minimizeToTray = "undefined"
    /\ lastClose # None
    /\ ~lastClose[1].isQuitting /\ lastClose[1].defaultPrevented
    /\ mainWin = "live" /\ ~win.visible
    /\ appState = "running" /\ ~isQuitting

\* A step in which app.quit() is called.
QuitCalled == appState = "running" /\ appState' = "quitting"

\* C12: every call of app.quit() (tray Quit, menu Quit, Restart, a quit asked
\* by the system) leaves the really-quitting flag set; once set the flag is
\* never cleared; and a close event delivered once the flag is set is not
\* cancelled and hides nothing: the window goes on to be destroyed.
C12_QuittingLetsCloseThrough ==
    [][/\ QuitCalled => isQuitting'
       /\ isQuitting => isQuitting'
       /\ (CloseEventDelivered /\ isQuitting')
            => /\ lastClose'[1].isQuitting
               /\ ~lastClose'[1].defaultPrevented
               /\ lastClose'[1].call = "none"
               /\ mainWin' = "closing" /\ win' = win]_vars

\* A quit closed a window that the close button would only have hidden.
C12_Witness ==
    /\ platform \in {"linux", "darwin"}
    /\ ~isDeckGameMode
    /\ Settings.tray # "false" /\ Settings.minimizeToTray # "false"
    /\ isQuitting
    /\ lastClose # None
    /\ lastClose[1].isQuitting /\ ~lastClose[1].defaultPrevented
    /\ mainWin = "closing"
    /\ appState = "quitting"

----------------------------------------------------------------------------
(* Properties of getAccentColor                                            *)

\* C13: a call of getAccentColor whose accent query failed (interface error,
\* read error, native API absent or returning nothing) has settled by
\* resolving to the empty string, on the linux path and on the other one.
C13_AccentFailureResolvesEmpty ==
    (accentCall.pc = "settled" /\ accentCall.failure # "none")
        => accentCall.settled = "resolved" /\ accentCall.value = ""

----------------------------------------------------------------------------
(* Properties of the settings listeners and of the tray                    *)

\* C14: once a window has been built, the change listeners the two stores
\* hold are exactly the ones registered for the current window, however many
\* windows were built before it, and a settings change runs its effect
\* against the current window only.
C14_ListenersOfCurrentWindow ==
    /\ [](winId > 0 => storeListeners = initSettingsListeners(winId))
    /\ [][lastEffect' # lastEffect => lastEffect'[1].wins \subseteq {winId}]_vars

\* A second window was built and a settings change reached it alone.

C14_Witness ==
    /\ winId = 2
    /\ mainWin = "live"
    /\ storeListeners = initSettingsListeners(2)
    /\ lastEffect # None
    /\ lastEffect[1].wins = {2}

\* C15: at most one tray icon is alive (created and not destroyed).
C15_SingleTray ==
    Cardinality({t \in 1..Len(trays) : trays[t].live}) <= 1

----------------------------------------------------------------------------
(* Properties of the stored window state                                   *)

\* A step in which the window is resized or moved.
ResizedOrMoved == mainWin = "live" /\ mainWin' = "live" /\ winBounds' # winBounds

\* A step in which the window is maximized, unmaximized or minimized.
MaximizedOrMinimized ==
    /\ mainWin = "live" /\ mainWin' = "live"
    /\ \/ win'.maximized # win.maximized
       \/ ~win.minimized /\ win'.minimized

\* Display d is attached and no attached display holds more of rect.
DisplayMatches(d, rect) ==
    /\ d \in displays
    /\ \A e \in displays : Overlap(rect, d) >= Overlap(rect, e)

\* C16: after a resize or move the stored windowBounds are the window's
\* bounds and the stored display id is that of the display matching them;
\* a maximize, unmaximize or minimize stores the two flags as the window
\* reports them and leaves the stored bounds and display id as they were.
C16_StoredBoundsAndFlags ==
    [][/\ ResizedOrMoved
            => /\ State'.windowBounds = winBounds'
               /\ State'.displayid # None
               /\ DisplayMatches(State'.displayid[1], winBounds'[1])
       /\ MaximizedOrMinimized
            => /\ State'.windowBounds = State.windowBounds
               /\ State'.displayid = State.displayid
               /\ State'.maximized = Some(win'.maximized)
               /\ State'.minimized = Some(win'.minimized)]_vars

\* A window built on the first display, as the record said, was maximized and
\* moved to the second display.
C16_Witness ==
    /\ mainWin = "live"
    /\ displays = {1, 2}
    /\ winBounds # None
    /\ winBounds[1].x >= DisplayLeft(2)
    /\ State.windowBounds = winBounds
    /\ State.displayid = Some(2)
    /\ win.maximized /\ State.maximized = Some(TRUE)
    /\ winOptions.x # None /\ winOptions.x[1] < DisplayLeft(2)

\* A step in which the disableMinSize listener runs for the live window with
\* the new value `value`.
MinSizeSettingChanged(value) ==
    /\ mainWin = "live"
    /\ Settings.disableMinSize # value
    /\ Settings'.disableMinSize = value

\* C17: when disableMinSize changes to false the window's minimum size becomes
\* MIN_WIDTH x MIN_HEIGHT and its bounds end at least that wide and high, with
\* neither dimension smaller than before; when it changes to true the minimum
\* size becomes 1 x 1 and the bounds stay as they were.
C17_MinSizeToggle ==
    [][/\ MinSizeSettingChanged("false")
            => /\ minimumSize' = [width |-> MIN_WIDTH, height |-> MIN_HEIGHT]
               /\ winBounds'[1].width >= MIN_WIDTH
               /\ winBounds'[1].height >= MIN_HEIGHT
               /\ winBounds'[1].width >= winBounds[1].width
               /\ winBounds'[1].height >= winBounds[1].height
       /\ MinSizeSettingChanged("true")
            => /\ minimumSize' = [width |-> 1, height |-> 1]
               /\ winBounds' = winBounds]_vars

\* A window resized below the floor while the minimum size was off has been
\* grown to the floor by the change to false.
C17_Witness ==
    /\ mainWin = "live"
    /\ Settings.disableMinSize = "false"
    /\ lastEffect = Effect("Settings", "disableMinSize", "false")
    /\ minimumSize = [width |-> MIN_WIDTH, height |-> MIN_HEIGHT]
    /\ winOptions.minWidth = None
    /\ winBounds # None
    /\ winBounds[1].width = MIN_WIDTH /\ winBounds[1].height = DEFAULT_HEIGHT
    /\ State.windowBounds = winBounds

----------------------------------------------------------------------------
(* Properties of the tray click                                            *)

\* A step in which onTrayClick runs.
TrayClicked == lastTrayClick' # lastTrayClick

\* C18: with clickTrayToShowHide enabled a tray click hides a visible window
\* and shows a hidden one; with the setting disabled or unset a click leaves
\* the window visible whatever it was.  No click closes the window.
C18_TrayClickToggles ==
    [][TrayClicked
        => /\ Settings.clickTrayToShowHide = "true" => win'.visible = ~win.visible
           /\ Settings.clickTrayToShowHide # "true" => win'.visible
           /\ mainWin' = mainWin]_vars

\* With the setting enabled, a click hid a window that no close event had
\* hidden before.
C18_Witness ==
    /\ Settings.clickTrayToShowHide = "true"
    /\ lastTrayClick # None
    /\ lastTrayClick[1].visible
    /\ mainWin = "live" /\ loaded /\ ~win.visible
    /\ lastClose = None

\* A step in which the second-instance handler runs for a signal that has no
\* --keybind and does not come from a dev instance, while the window exists.
FocusSignalReceived ==
    /\ lastSignal' # lastSignal
    /\ indexOf(lastSignal'.cmdLine[1], "--keybind") = -1
    /\ ~lastSignal'.IS_DEV
    /\ mainWin \in {"live", "closing"}

\* C19: such a signal leaves the main window not minimized, visible and
\* focused, whether it was minimized, hidden or already visible, and does not
\* close it.
C19_SignalRestoresAndFocuses ==
    [][FocusSignalReceived
        => /\ ~win'.minimized /\ win'.visible /\ win'.focused
           /\ mainWin' = mainWin]_vars

\* The signal reached a window that was minimized and hidden.
C19_Witness ==
    /\ lastSignal.cmdLine # None
    /\ indexOf(lastSignal.cmdLine[1], "--keybind") = -1
    /\ ~lastSignal.IS_DEV
    /\ lastSignal.window = "live"
    /\ lastSignal.windowCalls = <<"restore", "show", "focus">>
    /\ mainWin = "live"
    /\ ~win.minimized /\ win.visible /\ win.focused

\* The page of the window now built has finished loading for the first time.
FirstLoadFinished == ~loaded /\ loaded'

\* What did-finish-load does to the window, and when the splash window goes:
\* without --start-minimized the window is shown, and outside Deck game mode
\* it is maximized exactly when the stored maximized flag is true; with
\* --start-minimized the event leaves the window as it was; and the splash
\* window is destroyed only once the page has loaded.
LoadShowsWindow ==
    /\ [][FirstLoadFinished
            => IF startMinimized
               THEN win' = win
               ELSE /\ win'.visible
                    /\ ~isDeckGameMode
                         => (win'.maximized <=> State.maximized = Some(TRUE))]_vars
    /\ [][splash # "destroyed" /\ splash' = "destroyed" => loaded]_vars

\* Until the page has loaded the window is not visible.
HiddenUntilLoaded == (mainWin = "live" /\ ~loaded) => ~win.visible

\* C20: the main window is created hidden and is never shown before
\* did-finish-load; on that event it is shown (and maximized per the stored
\* flag) unless --start-minimized was given, in which case the event does not
\* show it; the splash window is destroyed only after did-finish-load.
C20_ShownOnlyOnLoad == []HiddenUntilLoaded /\ LoadShowsWindow

\* createMainWindow has just built a window.
WindowJustBuilt == winId' # winId

\* C21: the URL given to win.loadURL is https://canary.discord.com/app when
\* Settings.store.discordBranch is "canary", https://ptb.discord.com/app when
\* it is "ptb", and https://discord.com/app for every other value.
C21_URLByBranch ==
    [][WindowJustBuilt
        => url' = Some(CASE Settings.discordBranch = "canary"
                               -> "https://canary.discord.com/app"
                         [] Settings.discordBranch = "ptb"
                               -> "https://ptb.discord.com/app"
                         [] OTHER -> "https://discord.com/app")]_vars

\* A window built anew loads the ptb page.
C21_Witness ==
    /\ winId = 2
    /\ mainWin = "live"
    /\ Settings.discordBranch = "ptb"
    /\ url = Some("https://ptb.discord.com/app")

\* Invocation i was confirmed: it has called win.close() and awaits
\* clearStorageData.
ResetConfirmed(i) == Call(i).pc = "clearStorageData"

\* app.relaunch() and app.quit() were called.
RelaunchAndQuit == relaunchQueued /\ appState \in {"quitting", "quit"}

\* C22: a confirmed reset always reaches app.relaunch() and app.quit(), given
\* that the clearing and deletion calls complete, whether or not the close
\* handler turned win.close() into a hide.
C22_ConfirmedResetRelaunches ==
    \A i \in ClearDataIds : ResetConfirmed(i) ~> RelaunchAndQuit

\* The process has quit, or is quitting, without init() and without a window.
QuitWithoutInit ==
    /\ ~startup.init
    /\ appState \in {"quitting", "quit"}
    /\ mainWin = "undefined" /\ winId = 0

\* The two branches of the gate that quit: a release build without the lock,
\* and a process that got the lock but has --keybind in its argv.
GateQuits ==
    appState # "starting"
        => /\ (~startup.lock /\ ~startup.IS_DEV) => QuitWithoutInit
           /\ (startup.lock /\ startup.keybind) => QuitWithoutInit

\* C23: once the top level of index.ts has run, a release build that did not
\* get the single-instance lock has quit without init() and without a window;
\* so has a process that got the lock but has --keybind in its argv; and no
\* process started with --keybind runs init(), so that a keybind signal never
\* starts a new application instance.
C23_StartupGate ==
    /\ GateQuits
    /\ (appState # "starting" /\ startup.keybind) => ~startup.init

\* The handler has just run for a signal.
SignalReceived == lastSignal' # lastSignal

\* The handler issued one script for entry id: with false unless the key is
\* keydown, whatever the registry holds.  The script invoked the callback of
\* the latest registerKeybind(id, ...) when the entry is still there, and
\* nothing when it was never set or was deleted by unregisterKeybind(id).
ForwardedToRegistry(id, key) ==
    /\ key \notin {Some("keydown"), Some("keyup")}
         => lastSignal'.scripts = <<[id |-> Some(id), pressed |-> FALSE]>>
    /\ lastSignal'.scripts = <<[id |-> Some(id), pressed |-> key = Some("keydown")]>>
    /\ lastSignal'.invoked =
         IF keybindCallbacks[id] # None
         THEN <<[callback |-> lastRegistered[id][1], pressed |-> key = Some("keydown")]>>
         ELSE <<>>

\* Every signal just received whose argv has `--keybind <id>` at its first
\* --keybind, and that arrived in a state satisfying `when`, was forwarded so.
KeybindSignalsForwarded(when) ==
    (SignalReceived /\ when)
        => LET cmdLine == lastSignal'.cmdLine[1]
               keybindIndex == indexOf(cmdLine, "--keybind")
               id == At(cmdLine, keybindIndex + 1)
           IN (keybindIndex # -1 /\ id # None /\ id[1] \in KeybindIds)
                 => ForwardedToRegistry(id[1], At(cmdLine, keybindIndex + 2))

----------------------------------------------------------------------------
(* Properties of the spell-check languages: the empty intersection         *)

\* The engine supports none of the languages of the list.
NoneSupported(languages) ==
    \A i \in 1..Len(languages) : languages[i] \notin availableSpellCheckerLanguages

\* C25: when the engine supports none of the requested languages, an empty
\* request included, initSpellCheckLanguages makes no call of
\* setSpellCheckerLanguages and the list applied before stays as it was.
C25_EmptyIntersectionKeepsList ==
    [][(lastLanguages' # None /\ NoneSupported(lastLanguages'[1]))
        => /\ lastApplied' = None
           /\ spellCheckerLanguages' = spellCheckerLanguages]_vars

\* A list of two languages was applied, and a later request for a language
\* the engine does not support left it in place.
C25_Witness ==
    /\ lastLanguages = Some(<<"xx-XX">>)
    /\ lastApplied = None
    /\ spellCheckerLanguages = <<"en-US", "fr-FR">>

====
